---- MODULE Spec2Model ----
(***************************************************************************)
(* A model of the channels in-memory channel layer (channels/layers.py)    *)
(* and of the consumer dispatch loop (channels/utils.py,                   *)
(* channels/consumer.py).                                                  *)
(*                                                                         *)
(* Scheduling is asyncio's: one event loop, coroutines run without         *)
(* interruption between two suspension points.  Every action below is one  *)
(* such uninterrupted stretch of code.                                     *)
(***************************************************************************)
EXTENDS Integers, Sequences, FiniteSets, TLC

(***************************************************************************)
(* Bounds of the model.                                                    *)
(***************************************************************************)
Capacity == 2        \* InMemoryChannelLayer(capacity=...)
Expiry == 1          \* InMemoryChannelLayer(expiry=...), in seconds
GroupExpiry == 1     \* InMemoryChannelLayer(group_expiry=...), in seconds
Resolution == 2      \* ticks of the clock per second
MaxTime == 4         \* instants at which the clock is ever read
MaxSends == 3        \* messages ever enqueued while the clock stands still
MaxTimedSends == 2   \* messages ever enqueued while time passes
MaxInputs == 2       \* messages the transport ever delivers to one consumer
MaxMailboxSends == 2 \* messages ever sent to one consumer's mailbox
MaxArrivals == 3     \* messages the producers of the priority loop ever queue
MaxSuspends == 2     \* times the handlers of the priority loop ever suspend
MaxFrames == 2       \* frames the peer of a multiplexed connection ever sends
MaxChildSends == 3   \* messages the applications behind a multiplexer ever send
SuffixLength == 2    \* letters new_channel draws (the source draws 12)

MAX_NAME_LENGTH == 100

(***************************************************************************)
(* Names.  A name is the Python value passed as a channel or group name.   *)
(* str = FALSE is a value that is not a str.  A str is pad copies of the   *)
(* letter "a" followed by the characters of chars, so that names of 99     *)
(* and 100 characters stay small values.                                   *)
(***************************************************************************)
Str(pad, chars) == [str |-> TRUE, pad |-> pad, chars |-> chars]
NotAStr == [str |-> FALSE, pad |-> 0, chars |-> <<>>]
NoName == [str |-> FALSE, pad |-> 0, chars |-> <<"none">>]

NameLen(name) == name.pad + Len(name.chars)

\* [a-zA-Z\d\-_.]
HeadClass == {"a", "b", "c", "g", "h", "x", "1", "-", "_", "."}
\* [\d\w\-_.] : \w also takes letters outside ASCII
TailClass == HeadClass \cup {"e'"}

AllIn(s, class) == \A i \in 1..Len(s) : s[i] \in class

\* $ matches at the end of the string and before a newline that ends it
StripFinalNewline(s) ==
    IF Len(s) > 0 /\ s[Len(s)] = "\n" THEN SubSeq(s, 1, Len(s) - 1) ELSE s

\* re.compile(r"^[a-zA-Z\d\-_.]+(\![\d\w\-_.]*)?$").match(name)
MatchesAt(pad, s) ==
    \/ /\ pad + Len(s) >= 1
       /\ AllIn(s, HeadClass)
    \/ \E k \in 1..Len(s) :
          /\ s[k] = "!"
          /\ pad + (k - 1) >= 1
          /\ AllIn(SubSeq(s, 1, k - 1), HeadClass)
          /\ AllIn(SubSeq(s, k + 1, Len(s)), TailClass)

channel_name_regex(name) ==
    \/ MatchesAt(name.pad, name.chars)
    \/ MatchesAt(name.pad, StripFinalNewline(name.chars))

\* re.compile(r"^[a-zA-Z\d\-_.]+$").match(name)
group_name_regex(name) ==
    LET ok(s) == name.pad + Len(s) >= 1 /\ AllIn(s, HeadClass)
    IN  ok(name.chars) \/ ok(StripFinalNewline(name.chars))

match_type_and_length(name) == name.str /\ NameLen(name) < MAX_NAME_LENGTH

\* TRUE: returns True; FALSE: raises TypeError.  The receive flag is never
\* passed by the in-memory layer, so the "must end at the !" branch is dead.
valid_channel_name(name) ==
    match_type_and_length(name) /\ channel_name_regex(name)

valid_group_name(name) ==
    match_type_and_length(name) /\ group_name_regex(name)

(***************************************************************************)
(* The values the operations are called with.                              *)
(***************************************************************************)
ChanA == Str(0, <<"c">>)
ChanB == Str(98, <<"!">>)          \* 99 characters, process-specific form
GroupG == Str(0, <<"g">>)

ChannelArgs ==
    { ChanA, ChanB,
      NotAStr,
      Str(99, <<"c">>),            \* 100 characters
      Str(0, <<"!", "x">>) }       \* "!x"

GroupArgs ==
    { GroupG,
      NotAStr,
      Str(99, <<"g">>),            \* 100 characters
      Str(0, <<"g", "!">>) }       \* "g!" is a channel name, not a group name

Channels == { n \in ChannelArgs : valid_channel_name(n) }
Groups == { n \in GroupArgs : valid_group_name(n) }

Receivers == {"r1", "r2"}
MessageKinds == {"dict", "notdict", "reserved"}

\* asyncio.Queue objects: one per channel entry plus the ones that only a
\* blocked receive still holds
QIds == 1..(Cardinality(Channels) + Cardinality(Receivers))

VARIABLES
    now,        \* time.time(), in ticks
    channels,   \* self.channels : channel name -> queue object
    qitems,     \* queue._queue of every queue object: <<expiry time, message>>
    getters,    \* queue._getters of every queue object: waiting receivers
    groups,     \* self.groups : group name -> (channel name -> join time)
    rcv,        \* the receive() call each receiver coroutine is in
    nextMsg,    \* identity of the next message enqueued
    got,        \* history: <<channel, message>> of every return of receive
    returns,    \* history: how many times receive has returned a message
    joined,     \* history: <<group, channel>> added and not discarded since
    pruned,     \* history: a sweep has removed a group member
    lastOp      \* the call that took the last step, and its outcome

layerVars == <<now, channels, qitems, getters, groups, rcv, nextMsg,
               got, returns, joined, pruned, lastOp>>

\* self.capacity, which no call changes
VARIABLE capacity


(***************************************************************************)
(* Plain helpers on dicts, deques and the layer's state.                   *)
(***************************************************************************)
Put(f, k, v) == [x \in DOMAIN f \cup {k} |-> IF x = k THEN v ELSE f[x]]
Drop(f, k) == [x \in DOMAIN f \ {k} |-> f[x]]
Restrict(f, S) == [x \in DOMAIN f \cap S |-> f[x]]
Range(f) == { f[x] : x \in DOMAIN f }
Without(s, e) == SelectSeq(s, LAMBDA x : x # e)

Idle == [pc |-> "idle", chan |-> NoName, q |-> 0, calledAt |-> 0]

\* The layer's state as one value L, for the operators that compute a call.
Layer == [channels |-> channels, qitems |-> qitems, getters |-> getters,
          groups |-> groups, rcv |-> rcv]

\* Queue objects something still refers to
LiveQ(L) ==
    Range(L.channels) \cup { L.rcv[r].q : r \in { x \in Receivers : L.rcv[x].pc # "idle" } }

\* asyncio.Queue(): a new, empty queue object
NewQueue(L) == CHOOSE q \in QIds \ LiveQ(L) : \A p \in QIds \ LiveQ(L) : q <= p

\* A queue object nothing refers to is gone.
Collect(L) ==
    [L EXCEPT !.qitems = [q \in QIds |-> IF q \in LiveQ(L) THEN @[q] ELSE <<>>],
              !.getters = [q \in QIds |-> IF q \in LiveQ(L) THEN @[q] ELSE <<>>]]

(***************************************************************************)
(* asyncio.Queue                                                           *)
(***************************************************************************)
\* Queue._get: popleft
queue_get_peek(items) == [item |-> Head(items), rest |-> items]

queue_get_last(items) ==
    [item |-> items[Len(items)], rest |-> SubSeq(items, 1, Len(items) - 1)]

queue_get(items) == [item |-> Head(items), rest |-> Tail(items)]

\* Queue._wakeup_next(self._getters): pop waiters until one is not done,
\* and give that one its result
RECURSIVE wakeup_next(_, _)
wakeup_next(L, q) ==
    IF L.getters[q] = <<>> THEN L
    ELSE LET r == Head(L.getters[q])
             popped == [L EXCEPT !.getters[q] = Tail(@)]
         IN  IF L.rcv[r].pc = "waiting"
             THEN [popped EXCEPT !.rcv[r].pc = "woken"]
             ELSE wakeup_next(popped, q)

\* Queue.put with maxsize 0 never waits: it is put_nowait
put_nowait(L, q, entry) ==
    wakeup_next([L EXCEPT !.qitems[q] = Append(@, entry)], q)

(***************************************************************************)
(* InMemoryChannelLayer                                                    *)
(***************************************************************************)
\* self.channels.setdefault(channel, asyncio.Queue())
setdefault(L, channel) ==
    IF channel \in DOMAIN L.channels THEN L
    ELSE [L EXCEPT !.channels = Put(@, channel, NewQueue(L))]

\* while not queue.empty() and queue._queue[0][0] < time.time(): get_nowait()
RECURSIVE drop_expired(_, _)
drop_expired(items, t) ==
    IF items # <<>> /\ items[1][1] < t THEN drop_expired(Tail(items), t)
    ELSE items

\* int(x) of a time x held in ticks: its whole seconds
int(x) == x \div Resolution

\* The i-th instant at which time.time() is read, in ticks: two whole
\* seconds, then every tick (1.0 s, 2.0 s, 2.5 s, 3.0 s, ...).
Instant(i) == IF i <= 2 THEN i * Resolution ELSE 2 * Resolution + (i - 2)

\* the group expiration test of _clean_expired
membership_expired(join, t) == join # 0 /\ int(join) < int(t) - GroupExpiry

\* _clean_expired without the call of _remove_from_groups
_clean_expired_keep_groups(L, t) ==
    LET swept(c) == drop_expired(L.qitems[L.channels[c]], t)
        hit == { c \in DOMAIN L.channels : swept(c) # L.qitems[L.channels[c]] }
        items1 == [q \in QIds |->
                     IF \E c \in hit : L.channels[c] = q
                     THEN drop_expired(L.qitems[q], t) ELSE L.qitems[q]]
        groups2 == [g \in DOMAIN L.groups |->
                      Restrict(L.groups[g],
                        { c \in DOMAIN L.groups[g] :
                            ~membership_expired(L.groups[g][c], t) })]
    IN  [L EXCEPT !.qitems = items1,
                  !.channels = Restrict(@, { c \in DOMAIN @ :
                                   c \notin hit \/ swept(c) # <<>> }),
                  !.groups = groups2]

\* _clean_expired
_clean_expired(L, t) ==
    LET swept(c) == drop_expired(L.qitems[L.channels[c]], t)
        hit == { c \in DOMAIN L.channels : swept(c) # L.qitems[L.channels[c]] }
        items1 == [q \in QIds |->
                     IF \E c \in hit : L.channels[c] = q
                     THEN drop_expired(L.qitems[q], t) ELSE L.qitems[q]]
        \* _remove_from_groups(channel) for every channel that lost a message
        groups1 == [g \in DOMAIN L.groups |->
                      Restrict(L.groups[g], DOMAIN L.groups[g] \ hit)]
        groups2 == [g \in DOMAIN groups1 |->
                      Restrict(groups1[g],
                        { c \in DOMAIN groups1[g] :
                            ~membership_expired(groups1[g][c], t) })]
    IN  [L EXCEPT !.qitems = items1,
                  !.channels = Restrict(@, { c \in DOMAIN @ :
                                   c \notin hit \/ swept(c) # <<>> }),
                  !.groups = groups2]

\* if queue.qsize() >= self.capacity
is_full_strict(size) == size > capacity

is_full(size) == size >= capacity

\* InMemoryChannelLayer(channel_capacity={"c*": 1, "c": 3}): the overrides the
\* layer is constructed with, in the order of the dict.  A glob is the
\* characters before its "*", or a whole name.
channel_capacity ==
    << [prefix |-> <<"c">>, star |-> TRUE, capacity |-> 1],
       [prefix |-> <<"c">>, star |-> FALSE, capacity |-> 3] >>

\* get_capacity: the capacity of the first pattern that matches the channel
\* name, else the default
get_capacity(channel) ==
    LET char(i) == IF i <= channel.pad THEN "a"
                   ELSE channel.chars[i - channel.pad]
        match(pattern) ==
            /\ Len(pattern.prefix) <= NameLen(channel)
            /\ \A i \in 1..Len(pattern.prefix) : char(i) = pattern.prefix[i]
            /\ pattern.star \/ Len(pattern.prefix) = NameLen(channel)
        hits == { i \in 1..Len(channel_capacity) : match(channel_capacity[i]) }
    IN  IF hits = {} THEN capacity
        ELSE channel_capacity[CHOOSE i \in hits : \A j \in hits : i <= j].capacity

\* send, after its asserts: [L: the state after, res: the outcome]
send(L, channel, m, t) ==
    LET L1 == setdefault(L, channel)
        q == L1.channels[channel]
    IN  IF is_full(Len(L1.qitems[q]))
        THEN [L |-> L1, res |-> "ChannelFull"]
        ELSE [L |-> put_nowait(L1, q, <<t + Expiry * Resolution, m>>), res |-> "ok"]

\* except ChannelFull: pass
except_ChannelFull_reraise(res) == res

except_ChannelFull(res) == "ok"

\* for channel in self.groups.get(group, set()): try: await self.send(...)
\* The members are visited in the dict's order; the outcome computed here
\* does not depend on it when every ChannelFull is passed over.
RECURSIVE send_each(_, _, _, _)
send_each(L, todo, m, t) ==
    IF todo = {} THEN [L |-> L, res |-> "ok"]
    ELSE LET c == CHOOSE x \in todo : TRUE
             one == send(L, c, m, t)
             out == IF one.res = "ChannelFull"
                    THEN except_ChannelFull(one.res) ELSE one.res
         IN  IF out = "ok" THEN send_each(one.L, todo \ {c}, m, t)
             ELSE [L |-> one.L, res |-> out]

\* del self.groups[group][channel]
discard_member_keep(members, channel) == members

discard_member(members, channel) == Drop(members, channel)


(***************************************************************************)
(* The state after construction, and the calls.                            *)
(***************************************************************************)
\* What the last step was: the call, its arguments and its outcome.  A call
\* that raised on its arguments records the outcome and the offending name.
Op(op, chan, group, r, res, msg) ==
    [op |-> op, chan |-> chan, group |-> group, rcv |-> r, res |-> res,
     msg |-> msg, calledAt |-> 0, expires |-> 0]

LayerInit ==
    /\ now = Instant(1)
    /\ channels = <<>>
    /\ qitems = [q \in QIds |-> <<>>]
    /\ getters = [q \in QIds |-> <<>>]
    /\ groups = <<>>
    /\ rcv = [r \in Receivers |-> Idle]
    /\ nextMsg = 1
    /\ got = {}
    /\ returns = 0
    /\ joined = {}
    /\ pruned = FALSE
    /\ lastOp = Op("init", NoName, NoName, "none", "ok", 0)

\* The layer's own variables take the values of L.
Commit(L) ==
    LET C == Collect(L)
    IN  /\ channels' = C.channels
        /\ qitems' = C.qitems
        /\ getters' = C.getters
        /\ groups' = C.groups
        /\ rcv' = C.rcv

\* A call that raised on its arguments.
Raised(op, chan, group, res) == lastOp' = Op(op, chan, group, "none", res, 0)

Untouched ==
    UNCHANGED <<now, channels, qitems, getters, groups, rcv, nextMsg,
                got, returns, joined, pruned>>

\* The history of memberships follows a sweep that removed members.
SweepHistory(L1) ==
    IF L1.groups = groups THEN UNCHANGED <<joined, pruned>>
    ELSE /\ pruned' = TRUE
         /\ joined' = { p \in joined :
                          p[1] \in DOMAIN L1.groups /\ p[2] \in DOMAIN L1.groups[p[1]] }

\* time passes
Tick ==
    /\ \E i \in 1..(MaxTime - 1) : now = Instant(i) /\ now' = Instant(i + 1)
    /\ lastOp' = Op("tick", NoName, NoName, "none", "ok", 0)
    /\ UNCHANGED <<channels, qitems, getters, groups, rcv, nextMsg,
                   got, returns, joined, pruned>>

\* await layer.send(channel, message)
Send(channel, kind, limit) ==
    IF kind = "notdict" THEN Raised("send", channel, NoName, "AssertionError") /\ Untouched
    ELSE IF ~valid_channel_name(channel)
    THEN Raised("send", channel, NoName, "TypeError") /\ Untouched
    ELSE IF kind = "reserved"
    THEN Raised("send", channel, NoName, "AssertionError") /\ Untouched
    ELSE LET out == send(Layer, channel, nextMsg, now)
         IN  /\ out.res = "ok" => nextMsg <= limit
             /\ Commit(out.L)
             /\ nextMsg' = IF out.res = "ok" THEN nextMsg + 1 ELSE nextMsg
             /\ lastOp' = Op("send", channel, NoName, "none", out.res,
                             IF out.res = "ok" THEN nextMsg ELSE 0)
             /\ UNCHANGED <<now, got, returns, joined, pruned>>

\* the finally clause of receive, with the queue's items left after the get
\* or the cancellation: [L, res]
receive_finally(L, channel, q, res) ==
    IF L.qitems[q] = <<>>
    THEN IF channel \in DOMAIN L.channels
         THEN [L |-> [L EXCEPT !.channels = Drop(@, channel)], res |-> res]
         ELSE [L |-> L, res |-> "KeyError"]
    ELSE [L |-> L, res |-> res]

\* queue.get() finds an item, the finally clause runs, receive returns
Take(L, r, channel, q, calledAt) ==
    LET taken == queue_get(L.qitems[q])
        L1 == [L EXCEPT !.qitems[q] = taken.rest, !.rcv[r] = Idle]
        fin == receive_finally(L1, channel, q, "ok")
    IN  /\ Commit(fin.L)
        /\ lastOp' = [Op("receive", channel, NoName, r, fin.res, taken.item[2])
                        EXCEPT !.calledAt = calledAt, !.expires = taken.item[1]]
        /\ got' = IF fin.res = "ok" THEN got \cup {<<channel, taken.item[2]>>}
                  ELSE got
        /\ returns' = IF fin.res = "ok" THEN returns + 1 ELSE returns

\* queue.get() finds the queue empty and waits
Wait(L, r, channel, q, calledAt) ==
    /\ Commit([L EXCEPT !.getters[q] = Append(@, r),
                        !.rcv[r] = [pc |-> "waiting", chan |-> channel,
                                    q |-> q, calledAt |-> calledAt]])
    /\ lastOp' = Op("receive", channel, NoName, r, "blocked", 0)
    /\ UNCHANGED <<got, returns>>

\* the start of receive: validation, then the sweep
receive_enter_sweep_first(L, channel, t) ==
    IF valid_channel_name(channel) THEN [ok |-> TRUE, L |-> _clean_expired(L, t)]
    ELSE [ok |-> FALSE, L |-> _clean_expired(L, t)]

receive_enter(L, channel, t) ==
    IF valid_channel_name(channel) THEN [ok |-> TRUE, L |-> _clean_expired(L, t)]
    ELSE [ok |-> FALSE, L |-> L]

\* await layer.receive(channel), up to its return or its first wait
Receive(r, channel) ==
    /\ rcv[r].pc = "idle"
    /\ LET enter == receive_enter(Layer, channel, now)
       IN  IF ~enter.ok
           THEN /\ Commit(enter.L)
                /\ Raised("receive", channel, NoName, "TypeError")
                /\ UNCHANGED <<now, nextMsg, got, returns, joined, pruned>>
           ELSE LET L1 == enter.L
                    L2 == setdefault(L1, channel)
                    q == L2.channels[channel]
                IN  /\ SweepHistory(L1)
                    /\ IF L2.qitems[q] = <<>> THEN Wait(L2, r, channel, q, now)
                       ELSE Take(L2, r, channel, q, now)
                    /\ UNCHANGED <<now, nextMsg>>

\* a receive that put_nowait woke runs again: while self.empty() ...
Resume(r) ==
    /\ rcv[r].pc = "woken"
    /\ LET q == rcv[r].q
           channel == rcv[r].chan
       IN  IF qitems[q] = <<>> THEN Wait(Layer, r, channel, q, rcv[r].calledAt)
           ELSE Take(Layer, r, channel, q, rcv[r].calledAt)
    /\ UNCHANGED <<now, nextMsg, joined, pruned>>

\* task.cancel() on a task that runs receive: a task suspended in queue.get()
\* is marked, and the CancelledError is thrown into it when it runs next
task_cancel(R, r) ==
    IF R[r].pc \in {"waiting", "woken"}
    THEN [R EXCEPT ![r].pc = IF @ = "waiting" THEN "cancelling"
                              ELSE "woken_cancelled"]
    ELSE R

\* task.cancel() on a task that is inside receive
Cancel(r) ==
    /\ rcv[r].pc \in {"waiting", "woken"}
    /\ rcv' = task_cancel(rcv, r)
    /\ lastOp' = Op("cancel", NoName, NoName, r, "ok", 0)
    /\ UNCHANGED <<now, channels, qitems, getters, groups, nextMsg,
                   got, returns, joined, pruned>>

\* the cancelled task runs: the except clause of Queue.get, then the finally
\* clause of receive
Cancelled(r) ==
    /\ rcv[r].pc \in {"cancelling", "woken_cancelled"}
    /\ LET q == rcv[r].q
           channel == rcv[r].chan
           L1 == [Layer EXCEPT !.getters[q] = Without(@, r), !.rcv[r] = Idle]
           \* if not self.empty() and not getter.cancelled()
           L2 == IF L1.qitems[q] # <<>> /\ rcv[r].pc = "woken_cancelled"
                 THEN wakeup_next(L1, q) ELSE L1
           fin == receive_finally(L2, channel, q, "CancelledError")
       IN  /\ Commit(fin.L)
           /\ lastOp' = Op("receive", channel, NoName, r, fin.res, 0)
    /\ UNCHANGED <<now, nextMsg, got, returns, joined, pruned>>

\* await layer.group_add(group, channel)
GroupAdd(group, channel) ==
    IF ~valid_group_name(group)
    THEN Raised("group_add", channel, group, "TypeError") /\ Untouched
    ELSE IF ~valid_channel_name(channel)
    THEN Raised("group_add", channel, group, "TypeError") /\ Untouched
    ELSE /\ groups' = Put(groups, group,
                        Put(IF group \in DOMAIN groups THEN groups[group] ELSE <<>>,
                            channel, now))
         /\ joined' = joined \cup {<<group, channel>>}
         /\ lastOp' = Op("group_add", channel, group, "none", "ok", 0)
         /\ UNCHANGED <<now, channels, qitems, getters, rcv, nextMsg, got, returns,
                        pruned>>

\* the body of group_discard, after its asserts
group_discard(gs, group, channel) ==
    IF group \notin DOMAIN gs THEN gs
    ELSE LET members == IF channel \in DOMAIN gs[group]
                        THEN discard_member(gs[group], channel) ELSE gs[group]
         IN  IF DOMAIN members = {} THEN Drop(gs, group)
             ELSE Put(gs, group, members)

\* await layer.group_discard(group, channel)
GroupDiscard(group, channel) ==
    IF ~valid_channel_name(channel)
    THEN Raised("group_discard", channel, group, "TypeError") /\ Untouched
    ELSE IF ~valid_group_name(group)
    THEN Raised("group_discard", channel, group, "TypeError") /\ Untouched
    ELSE /\ groups' = group_discard(groups, group, channel)
         /\ joined' = joined \ {<<group, channel>>}
         /\ lastOp' = Op("group_discard", channel, group, "none", "ok", 0)
         /\ UNCHANGED <<now, channels, qitems, getters, rcv, nextMsg, got, returns,
                        pruned>>

\* self.groups.get(group, set()) after the sweep
members_of(L, group) ==
    IF group \in DOMAIN L.groups THEN DOMAIN L.groups[group] ELSE {}

\* await layer.group_send(group, message)
GroupSend(group, kind, limit) ==
    IF kind = "notdict"
    THEN Raised("group_send", NoName, group, "AssertionError") /\ Untouched
    ELSE IF ~valid_group_name(group)
    THEN Raised("group_send", NoName, group, "TypeError") /\ Untouched
    ELSE LET L1 == _clean_expired(Layer, now)
             members == members_of(L1, group)
             \* send asserts "__asgi_channel__" not in message
             out == IF kind = "reserved" /\ members # {}
                    THEN [L |-> L1, res |-> "AssertionError"]
                    ELSE send_each(L1, members, nextMsg, now)
             used == out.L.qitems # L1.qitems
         IN  /\ used => nextMsg <= limit
             /\ SweepHistory(L1)
             /\ Commit(out.L)
             /\ nextMsg' = IF used THEN nextMsg + 1 ELSE nextMsg
             /\ lastOp' = Op("group_send", NoName, group, "none", out.res,
                             IF used THEN nextMsg ELSE 0)
             /\ UNCHANGED <<now, got, returns>>

\* await layer.flush()
Flush ==
    /\ Commit([Layer EXCEPT !.channels = <<>>, !.groups = <<>>])
    /\ joined' = {}
    /\ pruned' = FALSE
    /\ lastOp' = Op("flush", NoName, NoName, "none", "ok", 0)
    /\ UNCHANGED <<now, nextMsg, got, returns>>

(***************************************************************************)
(* AsyncConsumer.__call__ and await_many_dispatch.                         *)
(*                                                                         *)
(* __call__ passes two input sources: the transport's receive (task 1) and *)
(* the mailbox receive, channel_layer.receive(channel_name) (task 2).      *)
(* await_many_dispatch is modelled with consumer_callables and dispatch    *)
(* bound to these two arguments.                                           *)
(***************************************************************************)
TransportTask == 1
MailboxTask == 2
NTasks == 2

\* self.channel_name, of the form new_channel returns
Mailbox == ChanB
\* the coroutine that runs the mailbox receive
MailboxRcv == "r1"

\* how many handlers a message's type has: _get_message_handlers
HandlerCounts == {0, 1, 2}

VARIABLES
    tasks,      \* await_many_dispatch's tasks list: the state of each task
    loop,       \* where the consumer coroutine is
    idx,        \* the index i of the for loop it is suspended in
    exc,        \* the exception that is propagating, or that __call__ raised
    todo,       \* dispatch: handlers of the current message still to be invoked
    invoked,    \* history: how many handler invocations there were
    stopped,    \* history: a handler has raised StopConsumer
    inputs      \* how many messages the transport has delivered

consumerVars == <<tasks, loop, idx, exc, todo, invoked, stopped, inputs>>

\* An asyncio task: st is "new" (created, its coroutine has not run yet),
\* "pending", "cancelling" (cancel() was called, the task has not run since),
\* "result", "exception" or "cancelled".  nh: the number of handlers of the
\* message it returned.  exc: the exception it raised.
Task(st, nh, e) == [st |-> st, nh |-> nh, exc |-> e]

\* task.done()
Done == {"result", "exception", "cancelled"}

\* asyncio.ensure_future(consumer_callables[i]())
ensure_future(i) ==
    IF i = MailboxTask THEN Task("new", 0, "none") ELSE Task("pending", 0, "none")

\* except StopConsumer: pass, in __call__
call_outcome_swallow(e) == "returned"

call_outcome(e) == IF e = "StopConsumer" THEN "returned" ELSE "raised"

\* The finally clause of await_many_dispatch from tasks[j] on, with e
\* propagating, up to the exit or to the first await that suspends:
\*   task.cancel(); try: await task; except asyncio.CancelledError: pass
\* T: tasks, R: the receive each coroutine is in.
RECURSIVE cleanup(_, _, _, _)
cleanup(T, R, j, e) ==
    IF j > NTasks
    THEN [tasks |-> T, rcv |-> R, loop |-> call_outcome(e), idx |-> 0, exc |-> e]
    ELSE IF T[j].st \in {"result", "cancelled"}
    THEN cleanup(T, R, j + 1, e)
    ELSE IF T[j].st = "exception"
    \* await task raises the task's exception, which leaves the finally clause
    THEN [tasks |-> T, rcv |-> R, loop |-> call_outcome(T[j].exc), idx |-> 0,
          exc |-> T[j].exc]
    ELSE [tasks |-> [T EXCEPT ![j].st = "cancelling"],
          rcv |-> IF j = MailboxTask THEN task_cancel(R, MailboxRcv) ELSE R,
          loop |-> "cleanup", idx |-> j, exc |-> e]

\* for i, task in enumerate(tasks): if task.done(): the first such i >= from
RECURSIVE first_done(_, _)
first_done(T, from) ==
    IF from > NTasks THEN 0
    ELSE IF T[from].st \in Done THEN from
    ELSE first_done(T, from + 1)

\* The consumer's variables take the values of a cleanup.
Leave(out) ==
    /\ tasks' = out.tasks
    /\ rcv' = out.rcv
    /\ loop' = out.loop
    /\ idx' = out.idx
    /\ exc' = out.exc
    /\ todo' = 0

LayerKept ==
    UNCHANGED <<now, channels, qitems, getters, groups, nextMsg,
                got, returns, joined, pruned>>

\* The for loop of await_many_dispatch from index from on, up to the next
\* suspension: result = task.result(); await dispatch(result)
Scan(T, from, name) ==
    LET j == first_done(T, from)
    IN  /\ lastOp' = Op(name, NoName, NoName, "none", "ok", 0)
        /\ LayerKept
        /\ UNCHANGED <<stopped, inputs>>
        /\ IF j = 0
           \* while True: await asyncio.wait(tasks, ...)
           THEN /\ tasks' = T
                /\ loop' = "wait"
                /\ idx' = 0
                /\ UNCHANGED <<rcv, exc, todo, invoked>>
           ELSE IF T[j].st = "result" /\ T[j].nh > 0
           \* dispatch invokes the first handler
           THEN /\ tasks' = T
                /\ loop' = "handler"
                /\ idx' = j
                /\ todo' = T[j].nh - 1
                /\ invoked' = invoked + 1
                /\ UNCHANGED <<rcv, exc>>
           ELSE /\ Leave(cleanup(T, rcv, 1,
                           IF T[j].st = "result" THEN "ValueError"
                           ELSE IF T[j].st = "cancelled" THEN "CancelledError"
                           ELSE T[j].exc))
                /\ UNCHANGED invoked

\* The event loop runs what is ready in the order it became ready: a task
\* created before the consumer coroutine suspended takes its first step before
\* the consumer coroutine runs again.
Started == \A i \in 1..NTasks : tasks[i].st # "new"

\* asyncio.wait returns: a task is done
WaitReturns ==
    /\ loop = "wait"
    /\ Started
    /\ \E i \in 1..NTasks : tasks[i].st \in Done
    /\ Scan(tasks, 1, "wait_returns")

\* a handler returns: dispatch invokes the next handler, or returns and the
\* loop replaces the task and goes on
HandlerReturns ==
    /\ loop = "handler"
    /\ IF todo > 0
       THEN /\ todo' = todo - 1
            /\ invoked' = invoked + 1
            /\ lastOp' = Op("handler_returns", NoName, NoName, "none", "ok", 0)
            /\ LayerKept
            /\ UNCHANGED <<tasks, rcv, loop, idx, exc, stopped, inputs>>
       ELSE Scan([tasks EXCEPT ![idx] = ensure_future(idx)], idx + 1,
                 "handler_returns")

\* a handler raises
HandlerRaises(e) ==
    /\ loop = "handler"
    /\ Leave(cleanup(tasks, rcv, 1, e))
    /\ stopped' = (stopped \/ e = "StopConsumer")
    /\ lastOp' = Op("handler_raises", NoName, NoName, "none", e, 0)
    /\ LayerKept
    /\ UNCHANGED <<invoked, inputs>>

\* the task that runs __call__ is cancelled while it waits for input or for
\* a handler
ExternalCancel ==
    /\ loop \in {"wait", "handler"}
    /\ Started
    /\ Leave(cleanup(tasks, rcv, 1, "CancelledError"))
    /\ lastOp' = Op("external_cancel", NoName, NoName, "none", "CancelledError", 0)
    /\ LayerKept
    /\ UNCHANGED <<invoked, stopped, inputs>>

\* the task awaited in the finally clause has finished
CleanupResume ==
    /\ loop = "cleanup"
    /\ Started
    /\ tasks[idx].st \in Done
    /\ Leave(cleanup(tasks, rcv, idx, exc))
    /\ lastOp' = Op("cleanup_resume", NoName, NoName, "none", "ok", 0)
    /\ LayerKept
    /\ UNCHANGED <<invoked, stopped, inputs>>

\* the transport's receive returns a message whose type has nh handlers
TransportDelivers(nh) ==
    /\ tasks[TransportTask].st = "pending"
    /\ inputs < MaxInputs
    /\ tasks' = [tasks EXCEPT ![TransportTask] = Task("result", nh, "none")]
    /\ inputs' = inputs + 1
    /\ lastOp' = Op("transport", NoName, NoName, "none", "ok", 0)
    /\ LayerKept
    /\ UNCHANGED <<rcv, loop, idx, exc, todo, invoked, stopped>>

\* the transport's receive raises
TransportFails ==
    /\ tasks[TransportTask].st = "pending"
    /\ tasks' = [tasks EXCEPT ![TransportTask] = Task("exception", 0, "TransportError")]
    /\ lastOp' = Op("transport", NoName, NoName, "none", "TransportError", 0)
    /\ LayerKept
    /\ UNCHANGED <<rcv, loop, idx, exc, todo, invoked, stopped, inputs>>

\* the cancelled transport task runs and ends cancelled
TransportCancelled ==
    /\ tasks[TransportTask].st = "cancelling"
    /\ tasks' = [tasks EXCEPT ![TransportTask] = Task("cancelled", 0, "none")]
    /\ lastOp' = Op("transport", NoName, NoName, "none", "CancelledError", 0)
    /\ LayerKept
    /\ UNCHANGED <<rcv, loop, idx, exc, todo, invoked, stopped, inputs>>

\* what a step of the mailbox receive makes of its task
mailbox_task(res) ==
    IF res = "blocked" THEN Task("pending", 0, "none")
    ELSE IF res = "ok" THEN Task("result", 1, "none")
    ELSE IF res = "CancelledError" THEN Task("cancelled", 0, "none")
    ELSE Task("exception", 0, res)

\* the mailbox task runs for the first time: it calls receive
MailboxRuns ==
    /\ tasks[MailboxTask].st = "new"
    /\ Receive(MailboxRcv, Mailbox)
    /\ tasks' = [tasks EXCEPT ![MailboxTask] = mailbox_task(lastOp'.res)]
    /\ UNCHANGED <<loop, idx, exc, todo, invoked, stopped, inputs>>

\* the mailbox task runs again after a send woke it
MailboxResumes ==
    /\ tasks[MailboxTask].st = "pending"
    /\ Resume(MailboxRcv)
    /\ tasks' = [tasks EXCEPT ![MailboxTask] = mailbox_task(lastOp'.res)]
    /\ UNCHANGED <<loop, idx, exc, todo, invoked, stopped, inputs>>

\* the cancelled mailbox task runs: a task that never ran ends cancelled, a
\* task inside receive gets the CancelledError at its await
MailboxCancelled ==
    /\ tasks[MailboxTask].st = "cancelling"
    /\ IF rcv[MailboxRcv].pc = "idle"
       THEN /\ tasks' = [tasks EXCEPT ![MailboxTask] = Task("cancelled", 0, "none")]
            /\ lastOp' = Op("receive", Mailbox, NoName, MailboxRcv, "CancelledError", 0)
            /\ LayerKept
            /\ UNCHANGED rcv
       ELSE /\ Cancelled(MailboxRcv)
            /\ tasks' = [tasks EXCEPT ![MailboxTask] = mailbox_task(lastOp'.res)]
    /\ UNCHANGED <<loop, idx, exc, todo, invoked, stopped, inputs>>

\* __call__ has created the tasks and is about to wait for the first input
ConsumerInit ==
    /\ tasks = [i \in 1..NTasks |-> ensure_future(i)]
    /\ loop = "wait"
    /\ idx = 0
    /\ exc = "none"
    /\ todo = 0
    /\ invoked = 0
    /\ stopped = FALSE
    /\ inputs = 0

(***************************************************************************)
(* await_many_dispatch_with_priority and PriorityTaskManager.              *)
(*                                                                         *)
(* The event loop's queue of ready callbacks is explicit here: asyncio     *)
(* runs them first in, first out, and the order in which the tasks of this *)
(* function wake up decides what they find.                                *)
(***************************************************************************)
\* The tasks of one call: the producers (receive_messages, taken together),
\* process_messages(queue), process_messages(priority_queue), the task of
\* PriorityTaskManager.current_task, and the caller itself.  "wait_cb" is the
\* done callback that asyncio.wait puts on the processing tasks.
PTasks == {"producer", "normal", "priority", "current_task", "main"}
Processing == {"normal", "priority"}

\* what a handler does when it runs: return, raise, or await something
Outcomes == {"returns", "raises", "suspends"}

VARIABLES
    variant,        \* which loop the connection runs: "plain" or "priority"
    queue,          \* queue: how many messages it holds
    priority_queue, \* priority_queue: how many messages it holds
    close_message_received,   \* PriorityTaskManager.close_message_received
    ptask,          \* the state of every task
    ready,          \* the event loop's ready callbacks, first in first out
    must_cancel,    \* tasks that get a CancelledError when they run next
    perr,           \* the exception of every task that raised
    exception,      \* the local variable exception of the finally clause
    hstarts,        \* history: non-priority handler invocations started
    pstarts,        \* history: priority handler invocations started
    preempted,      \* history: handle_message has cancelled a running handler
    arrivals,       \* how many messages the producers have queued
    suspends        \* how many times a handler has suspended

priorityVars == <<variant, queue, priority_queue, close_message_received, ptask,
                  ready, must_cancel, perr, exception, hstarts, pstarts,
                  preempted, arrivals, suspends>>

\* The state of the call as one value S, for the operators that compute a step.
PState ==
    [queue |-> queue, priority_queue |-> priority_queue,
     close |-> close_message_received, task |-> ptask, ready |-> ready,
     must_cancel |-> must_cancel, err |-> perr, exception |-> exception,
     hstarts |-> hstarts, pstarts |-> pstarts, preempted |-> preempted,
     suspends |-> suspends]

\* task.done()
PDone == {"done", "returned", "failed", "cancelled"}

InReady(S, t) == \E k \in 1..Len(S.ready) : S.ready[k] = t

\* loop.call_soon(the step of t), unless it is scheduled already
call_soon(S, t) == IF InReady(S, t) THEN S ELSE [S EXCEPT !.ready = Append(@, t)]

\* Task.cancel(): nothing on a done task; a task that waits for another task
\* passes the cancel on to it; otherwise the task runs next with a
\* CancelledError
cancel(S, t) ==
    LET mark(u) == call_soon([S EXCEPT !.must_cancel = @ \cup {u}], u)
    IN  IF S.task[t] \in PDone THEN S
        ELSE IF t \in Processing /\ S.task[t] = "await_task" /\ ~InReady(S, t)
        THEN IF S.task["current_task"] \in PDone THEN mark(t) ELSE mark("current_task")
        ELSE mark(t)

\* asyncio.gather(*producer_tasks, *processing_tasks, return_exceptions=True)
\* has everything it waits for
Gathered(S) == \A t \in {"producer"} \cup Processing : S.task[t] \in PDone

\* Task t ends in state st with exception e: its done callbacks are scheduled.
finish(S, t, st, e) ==
    LET S1 == [S EXCEPT !.task[t] = st, !.err[t] = e]
        wake(X, u) == IF X.task[u] = "await_task" THEN call_soon(X, u) ELSE X
    IN  IF t = "current_task"
        \* process_messages(queue) awaited it first, then handle_message
        THEN wake(wake(S1, "normal"), "priority")
        ELSE IF S1.task["main"] = "wait" /\ t \in Processing
        THEN IF InReady(S1, "main") THEN S1 ELSE call_soon(S1, "wait_cb")
        ELSE IF S1.task["main"] = "gather" /\ Gathered(S1)
        THEN call_soon(S1, "main")
        ELSE S1

\* await dispatch(message) in handle_message's priority branch: the handler
\* starts, inside process_messages(priority_queue)
dispatch_priority(S, o) ==
    LET S1 == [S EXCEPT !.pstarts = @ + 1]
    IN  IF o = "suspends"
        THEN [S1 EXCEPT !.task["priority"] = "dispatch", !.suspends = @ + 1]
        ELSE IF o = "raises" THEN finish(S1, "priority", "failed", "StopConsumer")
        ELSE [S1 EXCEPT !.task["priority"] = "returning"]

\* the current task is cancelled and awaited before dispatch
preempt_no_await(S, o) == dispatch_priority(cancel(S, "current_task"), o)

preempt(S, o) ==
    [cancel(S, "current_task") EXCEPT !.task["priority"] = "await_task",
                                      !.preempted = TRUE]

\* the same without the test of close_message_received
handle_priority_unguarded(S, o) ==
    LET S1 == [S EXCEPT !.close = TRUE]
    IN  IF S1.task["current_task"] \notin PDone \cup {"none"}
        THEN preempt(S1, o)
        ELSE dispatch_priority(S1, o)

\* PriorityTaskManager.handle_message(message, dispatch) called by
\* process_messages(priority_queue), up to its first suspension.  A state
\* "returning" means it returned without suspending.
handle_priority(S, o) ==
    IF S.close THEN [S EXCEPT !.task["priority"] = "returning"]
    ELSE LET S1 == [S EXCEPT !.close = TRUE]
         IN  IF S1.task["current_task"] \notin PDone \cup {"none"}
             THEN preempt(S1, o)
             ELSE dispatch_priority(S1, o)

\* the same without the test of close_message_received
handle_normal_unguarded(S) ==
    call_soon([S EXCEPT !.task["current_task"] = "new",
                        !.task["normal"] = "await_task"], "current_task")

\* the same, called by process_messages(queue) with a message that is not of
\* a priority type
handle_normal(S) ==
    IF S.close THEN [S EXCEPT !.task["normal"] = "returning"]
    ELSE IF S.task["current_task"] \in PDone \cup {"none"}
    \* self.current_task = asyncio.create_task(dispatch(message))
    THEN call_soon([S EXCEPT !.task["current_task"] = "new",
                             !.task["normal"] = "await_task"], "current_task")
    ELSE [S EXCEPT !.task["normal"] = "await_task"]

\* while True: message = await queue_to_process.get(); await handle_message
\* from the top of the loop to the next suspension
RECURSIVE process_messages(_, _, _)
process_messages(S, t, o) ==
    LET n == IF t = "normal" THEN S.queue ELSE S.priority_queue
    IN  IF n = 0 THEN [S EXCEPT !.task[t] = "get"]
        ELSE LET S1 == IF t = "normal" THEN [S EXCEPT !.queue = @ - 1]
                       ELSE [S EXCEPT !.priority_queue = @ - 1]
                 S2 == IF t = "normal" THEN handle_normal(S1)
                       ELSE handle_priority(S1, o)
             IN  IF S2.task[t] = "returning" THEN process_messages(S2, t, "returns")
                 ELSE S2

\* except asyncio.CancelledError: pass, in process_messages
process_cancelled(S, t) == finish(S, t, "done", "none")

\* One step of a processing task t that the event loop runs; c: it carries a
\* CancelledError.
processing_step(S, t, c, o) ==
    LET st == S.task[t]
        h == S.task["current_task"]
    IN  IF st = "new"
        THEN IF c THEN finish(S, t, "cancelled", "none") ELSE process_messages(S, t, o)
        ELSE IF st = "get"
        THEN IF c THEN process_cancelled(S, t) ELSE process_messages(S, t, o)
        ELSE IF st = "await_task"
        THEN IF t = "normal"
             THEN IF c \/ h = "cancelled" THEN process_cancelled(S, t)
                  ELSE IF h = "failed" THEN finish(S, t, "failed", S.err["current_task"])
                  ELSE process_messages(S, t, o)
             \* try: await self.current_task except CancelledError: pass
             ELSE IF h = "failed" /\ ~c
                  THEN finish(S, t, "failed", S.err["current_task"])
                  ELSE LET S1 == dispatch_priority(S, o)
                       IN  IF S1.task[t] = "returning"
                           THEN process_messages(S1, t, "returns") ELSE S1
        \* st = "dispatch": the priority handler runs on
        ELSE IF c THEN process_cancelled(S, t)
        ELSE IF o = "suspends" THEN [S EXCEPT !.suspends = @ + 1]
        ELSE IF o = "raises" THEN finish(S, t, "failed", "StopConsumer")
        ELSE process_messages(S, t, "returns")

\* One step of the task that runs dispatch(message) for a message that is
\* not of a priority type.  With a CancelledError the handler may let it
\* through (o = "suspends" stands for that), absorb it and return, or raise.
handler_step(S, c, o) ==
    IF S.task["current_task"] = "new" /\ c
    THEN finish(S, "current_task", "cancelled", "none")
    ELSE LET S1 == IF S.task["current_task"] = "new"
                   THEN [S EXCEPT !.hstarts = @ + 1] ELSE S
         IN  IF o = "returns" THEN finish(S1, "current_task", "returned", "none")
             ELSE IF o = "raises" THEN finish(S1, "current_task", "failed", "HandlerError")
             ELSE IF c THEN finish(S1, "current_task", "cancelled", "none")
             ELSE [S1 EXCEPT !.task["current_task"] = "running", !.suspends = @ + 1]

\* for task in producer_tasks + processing_tasks: the last exception found,
\* and a cancel() of every task that is not done
RECURSIVE cancel_all(_, _)
cancel_all(S, ts) ==
    IF ts = <<>> THEN S
    ELSE LET t == Head(ts)
             S1 == IF S.task[t] = "failed" THEN [S EXCEPT !.exception = S.err[t]]
                   ELSE S
         IN  cancel_all(cancel(S1, t), Tail(ts))

\* One step of the caller: the finally clause up to gather, or its end.
main_step(S, c) ==
    IF S.task["main"] = "wait"
    THEN LET S1 == cancel_all([S EXCEPT !.exception = IF c THEN "CancelledError"
                                                       ELSE "none"],
                              <<"producer", "normal", "priority">>)
             S2 == [S1 EXCEPT !.task["main"] = "gather"]
         IN  IF Gathered(S2) THEN call_soon(S2, "main") ELSE S2
    ELSE IF S.exception # "none" THEN [S EXCEPT !.task["main"] = "raised"]
    ELSE [S EXCEPT !.task["main"] = "returned"]

\* The event loop runs the first ready callback.
run_once(S, o) ==
    LET t == Head(S.ready)
        c == t \in S.must_cancel
        S1 == [S EXCEPT !.ready = Tail(@), !.must_cancel = @ \ {t}]
    IN  IF t = "wait_cb"
        \* _on_completion: the waiter of asyncio.wait gets its result
        THEN IF S1.task["main"] = "wait" THEN call_soon(S1, "main") ELSE S1
        ELSE IF t = "main" THEN main_step(S1, c)
        ELSE IF t = "producer"
        \* except asyncio.CancelledError: pass, in receive_messages
        THEN finish(S1, t, "done", "none")
        ELSE IF t = "current_task" THEN handler_step(S1, c, o)
        ELSE processing_step(S1, t, c, o)

\* The variables of the call take the values of S.
PCommit(S) ==
    /\ queue' = S.queue
    /\ priority_queue' = S.priority_queue
    /\ close_message_received' = S.close
    /\ ptask' = S.task
    /\ ready' = S.ready
    /\ must_cancel' = S.must_cancel
    /\ perr' = S.err
    /\ exception' = S.exception
    /\ hstarts' = S.hstarts
    /\ pstarts' = S.pstarts
    /\ preempted' = S.preempted
    /\ suspends' = S.suspends

\* The call has created its tasks and waits in asyncio.wait.
PriorityInit ==
    /\ queue = 0
    /\ priority_queue = 0
    /\ close_message_received = FALSE
    /\ ptask = [t \in PTasks |->
                 IF t \in Processing THEN "new"
                 ELSE IF t = "producer" THEN "running"
                 ELSE IF t = "main" THEN "wait" ELSE "none"]
    /\ ready = <<"normal", "priority">>
    /\ must_cancel = {}
    /\ perr = [t \in PTasks |-> "none"]
    /\ exception = "none"
    /\ hstarts = 0
    /\ pstarts = 0
    /\ preempted = FALSE
    /\ arrivals = 0
    /\ suspends = 0

\* the event loop runs one callback; o: what a handler does if one runs
RunOnce(o) ==
    /\ ready # <<>>
    /\ run_once(PState, o).suspends <= MaxSuspends
    /\ PCommit(run_once(PState, o))
    /\ UNCHANGED <<variant, arrivals>>

\* a producer gets a message from its source and queues it by its type
Arrive(priority) ==
    /\ ptask["producer"] = "running"
    /\ ~InReady(PState, "producer")
    /\ arrivals < MaxArrivals
    /\ arrivals' = arrivals + 1
    /\ LET t == IF priority THEN "priority" ELSE "normal"
           S1 == IF priority THEN [PState EXCEPT !.priority_queue = @ + 1]
                 ELSE [PState EXCEPT !.queue = @ + 1]
       \* put_nowait wakes the getter
       IN  PCommit(IF S1.task[t] = "get" THEN call_soon(S1, t) ELSE S1)
    /\ UNCHANGED variant

\* a producer's source raises: the producer task ends with the exception
ProducerFails ==
    /\ ptask["producer"] = "running"
    /\ ~InReady(PState, "producer")
    /\ PCommit(finish(PState, "producer", "failed", "SourceError"))
    /\ UNCHANGED <<variant, arrivals>>

\* what a suspended handler awaits is there: its task is ready again
IOCompletes(t) ==
    /\ \/ t = "current_task" /\ ptask[t] = "running"
       \/ t = "priority" /\ ptask[t] = "dispatch"
    /\ ~InReady(PState, t)
    /\ PCommit(call_soon(PState, t))
    /\ UNCHANGED <<variant, arrivals>>

\* the caller's task is cancelled from outside while it waits
PriorityExternalCancel ==
    /\ ptask["main"] = "wait"
    /\ ~InReady(PState, "main")
    /\ PCommit(cancel(PState, "main"))
    /\ UNCHANGED <<variant, arrivals>>

(***************************************************************************)
(* get_handler_name, AsyncConsumer._get_message_handlers and dispatch, as  *)
(* functions of the message, of the handlers registered with msg_handler,  *)
(* of the methods the consumer defines and of the setting                  *)
(* CHANNELS_AUTO_HANDLER_BY_NAME.  A type is the sequence of its           *)
(* characters.                                                             *)
(***************************************************************************)
ChatMessage == <<"c", ".", "m">>           \* like "chat.message"
PrivateThing == <<"_", "p", ".", "t">>     \* like "_private.thing"
DotPrivate == <<".", "p">>                 \* like ".my_private_handler"
NoType == <<>>                             \* the message has no "type" key
MessageTypes == {ChatMessage, PrivateThing, DotPrivate}

\* message["type"].replace(".", "_")
replace_dots(type) == [k \in 1..Len(type) |-> IF type[k] = "." THEN "_" ELSE type[k]]

\* handler_name.startswith("_")
startswith_underscore(name) == Len(name) > 0 /\ name[1] = "_"

\* get_handler_name: [error, name]
get_handler_name(type) ==
    IF type = NoType THEN [error |-> "NoTypeValueError", name |-> <<>>]
    ELSE IF startswith_underscore(replace_dots(type))
    THEN [error |-> "MalformedValueError", name |-> <<>>]
    ELSE [error |-> "none", name |-> replace_dots(type)]

\* the method name msg_handler(type) registered: one of its own ("other"), or
\* the name that get_handler_name gives for the type ("byname")
registered_name(type, kind) ==
    IF kind = "byname" THEN replace_dots(type) ELSE <<"h">> \o replace_dots(type)

\* getattr(settings, "CHANNELS_AUTO_HANDLER_BY_NAME", False)
auto_by_name_always(in) == TRUE

auto_by_name(in) == in.auto

\* _get_message_handlers: [error, handlers]
\* in.registered: type -> kind of registered name; in.defined: method names
_get_message_handlers(in) ==
    IF in.type = NoType THEN [error |-> "KeyError", handlers |-> <<>>]
    ELSE LET handlers == IF in.type \in DOMAIN in.registered
                         THEN <<registered_name(in.type, in.registered[in.type])>>
                         ELSE <<>>
             attrs == in.defined \cup
                        { registered_name(t, in.registered[t]) : t \in DOMAIN in.registered }
             byname == get_handler_name(in.type)
         IN  IF auto_by_name(in) /\ byname.error # "none"
             THEN [error |-> byname.error, handlers |-> <<>>]
             ELSE LET all == IF /\ auto_by_name(in)
                                /\ byname.name \in attrs
                                /\ \A k \in 1..Len(handlers) : handlers[k] # byname.name
                             THEN Append(handlers, byname.name) ELSE handlers
                  IN  IF Len(all) < 1
                      THEN [error |-> "NoHandlerValueError", handlers |-> <<>>]
                      ELSE [error |-> "none", handlers |-> all]

\* dispatch: the handlers it invokes, in order, and the error it raises
dispatch(in) ==
    LET found == _get_message_handlers(in)
    IN  [error |-> found.error, invoked |-> found.handlers]

VARIABLE lookup    \* one dispatch: its input and, once it has run, its result

lookupVars == <<lookup>>

NotRun == [error |-> "notrun", invoked |-> <<>>]

LookupInputs ==
    [type : MessageTypes \cup {NoType},
     registered : UNION { [D -> {"other", "byname"}] : D \in SUBSET MessageTypes },
     defined : SUBSET { replace_dots(t) : t \in MessageTypes },
     auto : BOOLEAN]

\* no dispatch is looked at
LookupIdle ==
    lookup = [in |-> [type |-> NoType, registered |-> <<>>, defined |-> {},
                      auto |-> FALSE],
              out |-> NotRun]

\* await self.dispatch(message)
Dispatch ==
    /\ lookup.out = NotRun
    /\ lookup' = [lookup EXCEPT !.out = dispatch(lookup.in)]

\* ---------------------------------------------------------------------------
\* generic/demultiplexer.py: AsyncJsonWebsocketDemultiplexer.  One connection:
\* the task of __call__, the message_consumer task that handles what the peer
\* sends, and one task per upstream application.
\* ---------------------------------------------------------------------------

\* the keys of `applications`, in the order of the dict
applications == <<"A", "B">>

DStreams == Range(applications)

\* a stream tag no application is mapped to, and a key that is absent
NotListed == "notlisted"
Missing == "missing"

\* what the peer's frames decode to: anything that is not a dict, or a dict
\* with or without its "stream" and "payload" keys
Contents ==
    { c \in [dict : BOOLEAN, stream : DStreams \cup {NotListed, Missing},
             payload : {"hello", Missing}] :
        ~c.dict => c.stream = Missing /\ c.payload = Missing }

\* what application tasks hand to dispatch_downstream
DownstreamTypes == {"websocket.accept", "websocket.close", "websocket.send"}

VARIABLES
    applications_accepting_frames, \* the set of streams
    closing,                       \* the flag websocket_disconnect sets
    application_streams,           \* stream -> the upstream queue's messages
    application_futures,           \* stream -> "running", "done", "failed", "cancelled"
    application_phase,             \* stream -> "new", "connected", "accepted", "closed"
    message_consumer,              \* "running", "disconnect", "stopped", "cancelled", or what it raised
    demux,                         \* __call__: [pc, i, exc]
    downstream,                    \* the frames handed to base_send, in order
    peer,                          \* "new", "connected", "disconnected"
    frames,                        \* how many frames the peer has sent
    childSends                     \* how many messages applications have sent

\* application_close_timeout ran out while the handling of
\* websocket.disconnect waited for the applications (both classes)
VARIABLE timed_out

demuxVars ==
    <<applications_accepting_frames, closing, application_streams,
      application_futures, application_phase, message_consumer, demux,
      downstream, peer, frames, childSends>>

\* the ValueErrors of receive_json and send_upstream
NotMapped == "Invalid multiplexed frame received (stream not mapped)"
NoKey == "Invalid multiplexed **frame received (no channel/payload key)"

\* json.dumps: the text of a payload
encode_json(payload) == <<"json", payload>>

Frame(type, stream) == [type |-> type, stream |-> stream]

Sent(type) == SelectSeq(downstream, LAMBDA f : f.type = type)

\* send_upstream: to every upstream queue without a stream name, else to that
\* stream's queue, and ValueError when there is none
send_upstream_to_all(message, stream_name) ==
    [err |-> "none",
     streams |-> [s \in DOMAIN application_streams |->
                    Append(application_streams[s], message)]]

send_upstream(message, stream_name) ==
    IF stream_name = Missing
    THEN [err |-> "none",
          streams |-> [s \in DOMAIN application_streams |->
                         Append(application_streams[s], message)]]
    ELSE IF stream_name \notin DOMAIN application_streams
         THEN [err |-> NotMapped, streams |-> application_streams]
         ELSE [err |-> "none",
               streams |-> [application_streams EXCEPT
                              ![stream_name] = Append(@, message)]]

\* receive_json: the queues afterwards, or the ValueError raised
receive_json_lenient(content) ==
    IF content.dict /\ content.stream # Missing /\ content.payload # Missing
       /\ content.stream \in applications_accepting_frames
    THEN send_upstream([type |-> "websocket.receive",
                        text |-> encode_json(content.payload)], content.stream)
    ELSE [err |-> "none", streams |-> application_streams]

receive_json(content) ==
    IF content.dict /\ content.stream # Missing /\ content.payload # Missing
    THEN IF content.stream \notin applications_accepting_frames
         THEN [err |-> NotMapped, streams |-> application_streams]
         ELSE send_upstream([type |-> "websocket.receive",
                             text |-> encode_json(content.payload)],
                            content.stream)
    ELSE [err |-> NoKey, streams |-> application_streams]

\* websocket_accept: the first stream of an empty set accepts the connection
websocket_accept(stream_name) ==
    LET is_first == applications_accepting_frames = {} IN
    /\ applications_accepting_frames' =
           applications_accepting_frames \cup {stream_name}
    /\ downstream' = IF is_first
                     THEN Append(downstream, Frame("websocket.accept", Missing))
                     ELSE downstream
    /\ UNCHANGED closing

\* websocket_close: the stream stops accepting; close unless closing or some
\* stream still accepts
websocket_close_unflagged(stream_name) ==
    LET left == applications_accepting_frames \ {stream_name} IN
    /\ applications_accepting_frames' = left
    /\ downstream' = IF left = {}
                     THEN Append(downstream, Frame("websocket.close", Missing))
                     ELSE downstream
    /\ UNCHANGED closing

websocket_close(stream_name) ==
    LET left == applications_accepting_frames \ {stream_name} IN
    /\ applications_accepting_frames' = left
    /\ downstream' = IF ~closing /\ left = {}
                     THEN Append(downstream, Frame("websocket.close", Missing))
                     ELSE downstream
    /\ UNCHANGED closing

\* websocket_send: the payload goes out tagged with the stream
websocket_send(stream_name) ==
    /\ downstream' = Append(downstream, Frame("websocket.send", stream_name))
    /\ UNCHANGED <<applications_accepting_frames, closing>>

Running(s) == application_futures[s] = "running"

\* What an application does next as a websocket application: it accepts or
\* closes once it has taken websocket.connect, sends while accepted, and is
\* silent once it has closed.
Phase(phase, type) ==
    CASE type = "websocket.connect" /\ phase = "new" -> "connected"
      [] type = "websocket.accept" /\ phase = "connected" -> "accepted"
      [] type = "websocket.send" /\ phase = "accepted" -> "accepted"
      [] type = "websocket.close" /\ phase \in {"connected", "accepted"} -> "closed"
      [] OTHER -> "none"

\* an application task calls its send, which is dispatch_downstream
dispatch_downstream(steam_name, type) ==
    /\ Running(steam_name)
    /\ Phase(application_phase[steam_name], type) # "none"
    /\ application_phase' = [application_phase EXCEPT
                               ![steam_name] = Phase(@, type)]
    /\ childSends < MaxChildSends
    /\ childSends' = childSends + 1
    /\ CASE type = "websocket.accept" -> websocket_accept(steam_name)
         [] type = "websocket.close" -> websocket_close(steam_name)
         [] type = "websocket.send" -> websocket_send(steam_name)
    /\ UNCHANGED <<application_streams, application_futures, message_consumer,
                   demux, peer, frames>>

\* an application task calls its receive, which is upstream_queue.get
UpstreamGet(s) ==
    /\ Running(s)
    /\ application_streams[s] # <<>>
    /\ application_streams' = [application_streams EXCEPT ![s] = Tail(@)]
    /\ application_phase' =
           IF Head(application_streams[s]).type = "websocket.connect"
           THEN [application_phase EXCEPT ![s] = Phase(@, "websocket.connect")]
           ELSE application_phase
    /\ UNCHANGED <<applications_accepting_frames, closing, application_futures,
                   message_consumer, demux, downstream, peer, frames,
                   childSends>>

\* an application task returns or raises
ApplicationExits(s, how) ==
    /\ Running(s)
    /\ application_futures' = [application_futures EXCEPT ![s] = how]
    /\ UNCHANGED <<applications_accepting_frames, closing, application_streams,
                   application_phase, message_consumer, demux, downstream,
                   peer, frames, childSends>>

\* the message consumer handles the peer's websocket.connect
websocket_connect ==
    /\ peer = "new"
    /\ message_consumer = "running"
    /\ peer' = "connected"
    /\ application_streams' =
           send_upstream([type |-> "websocket.connect", text |-> <<>>],
                         Missing).streams
    /\ UNCHANGED <<applications_accepting_frames, closing, application_futures, application_phase,
                   message_consumer, demux, downstream, frames, childSends>>

\* the message consumer handles a frame of the peer, which the server
\* delivers on an accepted connection
websocket_receive(content) ==
    /\ peer = "connected"
    /\ message_consumer = "running"
    /\ Sent("websocket.accept") # <<>>
    /\ frames < MaxFrames
    /\ frames' = frames + 1
    /\ LET out == receive_json(content) IN
         /\ application_streams' = out.streams
         /\ message_consumer' = IF out.err = "none" THEN "running" ELSE out.err
    /\ UNCHANGED <<applications_accepting_frames, closing, application_futures, application_phase,
                   demux, downstream, peer, childSends>>

\* the message consumer handles the peer's websocket.disconnect, up to the
\* asyncio.wait of disconnect()
websocket_disconnect ==
    /\ peer = "connected"
    /\ message_consumer = "running"
    /\ peer' = "disconnected"
    /\ closing' = TRUE
    /\ application_streams' =
           send_upstream([type |-> "websocket.disconnect", text |-> <<>>],
                         Missing).streams
    /\ message_consumer' = "disconnect"
    /\ UNCHANGED <<applications_accepting_frames, application_futures, application_phase, demux,
                   downstream, frames, childSends>>

\* disconnect() returns, every application done or, with one still running,
\* application_close_timeout over, and websocket_disconnect raises
\* StopConsumer
disconnect ==
    /\ message_consumer = "disconnect"
    /\ timed_out' = \E s \in DStreams : Running(s)
    /\ message_consumer' = "stopped"
    /\ UNCHANGED <<applications_accepting_frames, closing, application_streams,
                   application_futures, application_phase, demux, downstream, peer, frames,
                   childSends>>

\* __call__: asyncio.wait returns once a task is done; the message consumer is
\* cancelled and awaited
call_wait ==
    /\ demux.pc = "wait"
    /\ \/ message_consumer \in {"stopped", NotMapped, NoKey}
       \/ \E s \in DStreams : ~Running(s)
    /\ message_consumer' = IF message_consumer \in {"running", "disconnect"}
                           THEN "cancelled" ELSE message_consumer
    /\ demux' = [pc |-> "finally", i |-> 1,
                 exc |-> IF message_consumer \in {NotMapped, NoKey}
                         THEN message_consumer ELSE "none"]
    /\ UNCHANGED <<applications_accepting_frames, closing, application_streams,
                   application_futures, application_phase, downstream, peer, frames, childSends>>

\* __call__: the next application task is cancelled and awaited; what it
\* raised, other than CancelledError, leaves __call__ at once
call_finally ==
    /\ demux.pc = "finally"
    /\ LET s == applications[demux.i]
           st == IF Running(s) THEN "cancelled" ELSE application_futures[s] IN
         /\ application_futures' = [application_futures EXCEPT ![s] = st]
         /\ demux' = IF st = "failed"
                     THEN [demux EXCEPT !.pc = "done", !.exc = "ApplicationError"]
                     ELSE IF demux.i = Len(applications)
                          THEN [demux EXCEPT !.pc = "done"]
                          ELSE [demux EXCEPT !.i = @ + 1]
    /\ UNCHANGED <<applications_accepting_frames, closing, application_streams,
                   application_phase, message_consumer, downstream, peer,
                   frames, childSends>>

\* __init__ and _create_upstream_applications
DemuxInit ==
    /\ applications_accepting_frames = {}
    /\ closing = FALSE
    /\ application_streams = [s \in DStreams |-> <<>>]
    /\ application_futures = [s \in DStreams |-> "running"]
    /\ application_phase = [s \in DStreams |-> "new"]
    /\ message_consumer = "running"
    /\ demux = [pc |-> "wait", i |-> 1, exc |-> "none"]
    /\ downstream = <<>>
    /\ peer = "new"
    /\ frames = 0
    /\ childSends = 0

\* ---------------------------------------------------------------------------
\* generic/multiplexer.py: the other AsyncJsonWebsocketDemultiplexer.  Its
\* accepted_upstream_stream, disconnecting, stream_upstream_queues and stream
\* tasks are held in applications_accepting_frames, closing,
\* application_streams and application_futures; sent_close is its own.
\* ---------------------------------------------------------------------------
VARIABLE sent_close

\* websocket.close as AsyncWebsocketConsumer.close(code) sends it
CloseFrame(code) ==
    [type |-> "websocket.close", stream |-> Missing, code |-> code]

\* close: nothing is sent, unless forced, while a stream is accepted, after a
\* close was sent, or after websocket.disconnect
close_after_disconnect(code, accepted, force) ==
    IF (accepted # {} \/ sent_close) /\ ~force
    THEN UNCHANGED <<sent_close, downstream>>
    ELSE /\ sent_close' = TRUE
         /\ downstream' = Append(downstream, CloseFrame(code))

close(code, accepted, force) ==
    IF (accepted # {} \/ sent_close \/ closing) /\ ~force
    THEN UNCHANGED <<sent_close, downstream>>
    ELSE /\ sent_close' = TRUE
         /\ downstream' = Append(downstream, CloseFrame(code))

\* websocket_connect: connect() accepts, and every stream queue gets the
\* message
multiplexer_connect ==
    /\ peer = "new"
    /\ message_consumer = "running"
    /\ peer' = "connected"
    /\ downstream' = Append(downstream, Frame("websocket.accept", Missing))
    /\ application_streams' =
           send_upstream([type |-> "websocket.connect", text |-> <<>>],
                         Missing).streams
    /\ UNCHANGED <<applications_accepting_frames, closing, application_futures,
                   application_phase, message_consumer, demux, frames,
                   childSends, sent_close>>

\* an application task calls its send, which is _multiplexing_send:
\* websocket_accept adds the stream, websocket_close removes it and calls
\* close, websocket_send is as in demultiplexer.py
_multiplexing_send(stream_name, type) ==
    /\ Running(stream_name)
    /\ Phase(application_phase[stream_name], type) # "none"
    /\ application_phase' = [application_phase EXCEPT
                               ![stream_name] = Phase(@, type)]
    /\ childSends < MaxChildSends
    /\ childSends' = childSends + 1
    /\ CASE type = "websocket.accept" ->
              /\ applications_accepting_frames' =
                     applications_accepting_frames \cup {stream_name}
              /\ UNCHANGED <<downstream, sent_close>>
         [] type = "websocket.close" ->
              IF stream_name \in applications_accepting_frames
              THEN /\ applications_accepting_frames' =
                          applications_accepting_frames \ {stream_name}
                   /\ close("none", applications_accepting_frames', FALSE)
              ELSE \* set.remove raises KeyError into the application
                   UNCHANGED <<applications_accepting_frames, downstream,
                               sent_close>>
         [] type = "websocket.send" ->
              websocket_send(stream_name) /\ UNCHANGED sent_close
    /\ UNCHANGED <<closing, application_streams, application_futures,
                   message_consumer, demux, peer, frames>>

\* _monitor_task: an application task ends; a failure forces a close with
\* code 1011 unless disconnecting, every other end removes the stream and its
\* queue and calls close
_monitor_task(stream_name, how) ==
    /\ Running(stream_name)
    /\ application_futures' = [application_futures EXCEPT ![stream_name] = how]
    /\ IF how = "failed"
       THEN /\ IF ~closing
               THEN close("1011", applications_accepting_frames, TRUE)
               ELSE UNCHANGED <<sent_close, downstream>>
            /\ UNCHANGED <<applications_accepting_frames, application_streams>>
       ELSE /\ applications_accepting_frames' =
                   applications_accepting_frames \ {stream_name}
            /\ application_streams' = Drop(application_streams, stream_name)
            /\ close("none", applications_accepting_frames', FALSE)
    /\ UNCHANGED <<closing, application_phase, message_consumer, demux, peer,
                   frames, childSends>>

\* Every running stream task is cancelled, by the timeout of wait_for or by
\* the finally clause of __call__.  The monitor of each takes its stream out
\* of the accepted set, deletes its queue and calls close(), which sends at
\* most once, and only if the set is empty at the end.
cancel_streams ==
    LET running == { s \in DStreams : Running(s) } IN
    /\ application_futures' =
           [s \in DStreams |->
              IF Running(s) THEN "cancelled" ELSE application_futures[s]]
    /\ applications_accepting_frames' = applications_accepting_frames \ running
    /\ application_streams' =
           Restrict(application_streams, DStreams \ running)
    /\ IF running # {}
       THEN close("none", applications_accepting_frames', FALSE)
       ELSE UNCHANGED <<sent_close, downstream>>

\* websocket_disconnect after its puts: wait_for(self._task_monitors) raises
\* what a monitor raised, returns when every monitor has returned, or cancels
\* the monitors when application_close_timeout is over; then
\* super().websocket_disconnect raises StopConsumer
wait_for ==
    /\ message_consumer = "disconnect"
    /\ IF \E s \in DStreams : application_futures[s] = "failed"
       THEN /\ message_consumer' = "ApplicationError"
            /\ UNCHANGED <<timed_out, application_futures,
                           applications_accepting_frames,
                           application_streams, sent_close, downstream>>
       ELSE IF \A s \in DStreams : ~Running(s)
       THEN /\ message_consumer' = "stopped"
            /\ UNCHANGED <<timed_out, application_futures,
                           applications_accepting_frames,
                           application_streams, sent_close, downstream>>
       ELSE /\ timed_out' = TRUE
            /\ cancel_streams
            /\ message_consumer' = "stopped"
    /\ UNCHANGED <<closing, application_phase, demux, peer, frames,
                   childSends>>

\* what the gather of __call__ hands to its await: the first exception of a
\* monitor, CancelledError once the monitors were cancelled, nothing when the
\* message consumer and every monitor have returned; "pending" before
gather_drops_exception ==
    IF \E s \in DStreams : application_futures[s] = "failed"
    THEN "none"
    ELSE IF timed_out THEN "CancelledError"
    ELSE IF message_consumer = "stopped" /\ \A s \in DStreams : ~Running(s)
    THEN "none"
    ELSE "pending"

gather ==
    IF \E s \in DStreams : application_futures[s] = "failed"
    THEN "ApplicationError"
    ELSE IF timed_out THEN "CancelledError"
    ELSE IF message_consumer = "stopped" /\ \A s \in DStreams : ~Running(s)
    THEN "none"
    ELSE "pending"

\* __call__ of multiplexer.py leaves its await and runs its finally clause:
\* the stream tasks still running are cancelled, the message consumer is not
multiplexer_call ==
    /\ demux.pc = "wait"
    /\ gather # "pending"
    /\ demux' = [pc |-> "done", i |-> 1, exc |-> gather]
    /\ cancel_streams
    /\ UNCHANGED <<closing, application_phase, message_consumer, peer,
                   frames, childSends, timed_out>>

\* ---------------------------------------------------------------------------
\* generic/websocket/multiplex.py: WebsocketMultiplexerApplication.  One
\* connection: the main coroutine __call__ (demux holds its position), the
\* peer's events, and one task per child.  The streams are those of
\* `applications`; downstream holds what goes to the server's send.
\* ---------------------------------------------------------------------------

\* stream -> [queue, has_queue, task, accepting, buffer, has_buffer, flushed,
\* warned]:
\* has_queue and has_buffer are false where the code holds None; queue is
\* every event the child's queue was given, in order: the child task takes
\* them from its front at its own pace, which nothing here depends on;
\* flushed is how many events went from the buffer to the queue; warned is
\* how many frames for the stream were dropped with the warning "Application
\* for stream ... is not in a receiving state"
VARIABLE children

\* the websocket.receive events of the peer: with or without "text", the
\* decoded text with or without "stream" and "payload"
TextFrames ==
    { e \in [text : BOOLEAN, stream : DStreams \cup {NotListed, Missing},
             payload : BOOLEAN] :
        ~e.text => e.stream = Missing /\ ~e.payload }

ChildSendTypes == DownstreamTypes \cup {"websocket.other"}

Event(type, n) == [type |-> type, text |-> encode_json(n)]

\* asyncio.Queue.put on a child's queue
queue_put(child, event) ==
    [child EXCEPT !.queue = Append(@, event)]

\* the first child, in the order of the dict, whose task is not done and
\* whose queue is None: broadcast_event fails there with AttributeError
FirstClosed(C) ==
    LET bad == { i \in 1..Len(applications) :
                   /\ C[applications[i]].task = "running"
                   /\ ~C[applications[i]].has_queue }
    IN  IF bad = {} THEN Len(applications) + 1
        ELSE CHOOSE i \in bad : \A j \in bad : i <= j

\* broadcast_event: the event goes to every child whose task is not done
broadcast_event(C, event) ==
    [err |-> IF FirstClosed(C) <= Len(applications)
             THEN "AttributeError" ELSE "none",
     children |->
        [s \in DStreams |->
           IF /\ C[s].task = "running"
              /\ \E i \in 1..(FirstClosed(C) - 1) : applications[i] = s
           THEN queue_put(C[s], event) ELSE C[s]]]

\* dispatch_event: the n-th frame of the peer
dispatch_event_to_all(C, e, n) ==
    [err |-> "none",
     children |-> [s \in DStreams |->
                     queue_put(C[s], Event("websocket.receive", n))]]

dispatch_event(C, e, n) ==
    IF ~e.text
    THEN [err |-> "ValueError", children |-> C]
    ELSE IF e.stream = Missing
    THEN [err |-> "ValueError", children |-> C]
    ELSE IF ~e.payload
    THEN [err |-> "ValueError", children |-> C]
    ELSE IF e.stream \notin DOMAIN C
    THEN [err |-> "none", children |-> C]        \* warning
    ELSE IF ~C[e.stream].has_queue \/ C[e.stream].task # "running"
    THEN [err |-> "none",                        \* warning
          children |-> [C EXCEPT ![e.stream].warned = @ + 1]]
    ELSE IF ~C[e.stream].accepting
    THEN [err |-> "none",
          children |-> [C EXCEPT ![e.stream].buffer =
                          Append(@, Event("websocket.receive", n))]]
    ELSE [err |-> "none",
          children |-> [C EXCEPT ![e.stream] =
                          queue_put(@, Event("websocket.receive", n))]]

\* the child with its buffer put on its queue, event by event
Flushed(child) ==
    [child EXCEPT !.queue = @ \o child.buffer,
                  !.flushed = @ + Len(child.buffer)]

\* child_send: what a child hands to its send.  The accept of a child whose
\* buffer is None fails with TypeError after accepting is set.
child_send_keep_buffer(C, stream, type) ==
    LET child == C[stream] IN
    CASE type = "websocket.accept" ->
           IF ~child.has_buffer
           THEN [err |-> "TypeError", sent |-> <<>>,
                 children |-> [C EXCEPT ![stream].accepting = TRUE]]
           ELSE [err |-> "none", sent |-> <<>>,
                 children |-> [C EXCEPT ![stream] =
                                 [Flushed(@) EXCEPT !.accepting = TRUE]]]
      [] type = "websocket.close" ->
           [err |-> "none", sent |-> <<>>,
            children |-> [C EXCEPT ![stream] =
                            [@ EXCEPT !.queue = <<>>, !.has_queue = FALSE,
                                      !.buffer = <<>>, !.has_buffer = FALSE]]]
      [] type = "websocket.send" ->
           [err |-> "none", sent |-> <<Frame("websocket.send", stream)>>,
            children |-> C]
      [] OTHER -> [err |-> "ValueError", sent |-> <<>>, children |-> C]

child_send(C, stream, type) ==
    LET child == C[stream] IN
    CASE type = "websocket.accept" ->
           IF ~child.has_buffer
           THEN [err |-> "TypeError", sent |-> <<>>,
                 children |-> [C EXCEPT ![stream].accepting = TRUE]]
           ELSE [err |-> "none", sent |-> <<>>,
                 children |-> [C EXCEPT ![stream] =
                                 [Flushed(@) EXCEPT !.accepting = TRUE,
                                                    !.buffer = <<>>,
                                                    !.has_buffer = FALSE]]]
      [] type = "websocket.close" ->
           [err |-> "none", sent |-> <<>>,
            children |-> [C EXCEPT ![stream] =
                            [@ EXCEPT !.queue = <<>>, !.has_queue = FALSE,
                                      !.buffer = <<>>, !.has_buffer = FALSE]]]
      [] type = "websocket.send" ->
           [err |-> "none", sent |-> <<Frame("websocket.send", stream)>>,
            children |-> C]
      [] OTHER -> [err |-> "ValueError", sent |-> <<>>, children |-> C]

\* the finally clause of __call__: every task that is not done is cancelled
call_exit(C, e) ==
    /\ demux' = [pc |-> "done", i |-> 1, exc |-> e]
    /\ children' = [s \in DStreams |->
                      IF C[s].task = "running"
                      THEN [C[s] EXCEPT !.task = "cancelled"] ELSE C[s]]

Looping == demux.pc = "wait"

\* __call__ takes websocket.connect; allow_connection may be overridden
MultiplexConnect(allow) ==
    /\ Looping /\ peer = "new"
    /\ peer' = "connected"
    /\ LET out == broadcast_event(children,
                      Event(IF allow THEN "websocket.connect"
                            ELSE "websocket.disconnect", 0))
       IN  IF out.err # "none"
           THEN call_exit(out.children, out.err) /\ UNCHANGED downstream
           ELSE /\ downstream' =
                     Append(downstream,
                            Frame(IF allow THEN "websocket.accept"
                                  ELSE "websocket.close", Missing))
                /\ children' = out.children
                /\ demux' = IF allow THEN demux ELSE [demux EXCEPT !.pc = "join"]
    /\ UNCHANGED <<frames, childSends>>

\* __call__ takes websocket.disconnect
MultiplexDisconnect ==
    /\ Looping /\ peer = "connected"
    /\ peer' = "disconnected"
    /\ LET out == broadcast_event(children, Event("websocket.disconnect", 0))
       IN  IF out.err # "none"
           THEN call_exit(out.children, out.err)
           ELSE children' = out.children /\ UNCHANGED demux
    /\ UNCHANGED <<downstream, frames, childSends>>

\* __call__ takes a websocket.receive
MultiplexReceive(e) ==
    /\ Looping /\ peer = "connected"
    /\ frames < MaxFrames
    /\ frames' = frames + 1
    /\ LET out == dispatch_event(children, e, frames + 1)
       IN  IF out.err # "none"
           THEN call_exit(out.children, out.err)
           ELSE children' = out.children /\ UNCHANGED demux
    /\ UNCHANGED <<downstream, peer, childSends>>

\* after the break, __call__ awaits every child task, and is done with them;
\* or the server cancels it
MultiplexExit(cancelled) ==
    /\ demux.pc \in {"wait", "join"}
    /\ IF cancelled THEN call_exit(children, "CancelledError")
       ELSE /\ demux.pc = "join"
            /\ \A s \in DStreams : children[s].task # "running"
            /\ call_exit(children, "none")
    /\ UNCHANGED <<downstream, peer, frames, childSends>>

\* a child task calls its send
ChildSend(s, type) ==
    /\ children[s].task = "running"
    /\ demux.pc # "done"
    /\ childSends < MaxChildSends
    /\ childSends' = childSends + 1
    /\ LET out == child_send(children, s, type) IN
         /\ children' = out.children
         /\ downstream' = downstream \o out.sent
    /\ UNCHANGED <<demux, peer, frames>>

\* a child task ends
ChildEnds(s) ==
    /\ children[s].task = "running"
    /\ children' = [children EXCEPT ![s].task = "done"]
    /\ UNCHANGED <<demux, downstream, peer, frames, childSends>>

\* what the steps of this connection leave alone
MultiplexKept ==
    UNCHANGED <<applications_accepting_frames, closing, application_streams,
                application_futures, application_phase, message_consumer,
                sent_close, timed_out>>

\* __init__ and create_children
MultiplexInit ==
    children = [s \in DStreams |->
                  [queue |-> <<>>, has_queue |-> TRUE, task |-> "running",
                   accepting |-> FALSE, buffer |-> <<>>, has_buffer |-> TRUE,
                   flushed |-> 0, warned |-> 0]]

(***************************************************************************)
(* Connections and their private mailboxes.                                *)
(*                                                                         *)
(* AsyncConsumer.__call__ asks the layer for a name with new_channel() and *)
(* binds channel_layer.receive to it.  new_channel joins 12 letters drawn  *)
(* with random.choice and keeps no record of the names it has returned.    *)
(***************************************************************************)
Connections == {"k1", "k2"}

\* string.ascii_letters, cut down to two letters
ascii_letters == {"a", "b"}

VARIABLE channel_name   \* self.channel_name of each connection's consumer

\* The AsyncWebsocketConsumer of connection WsConn: which handler it has run,
\* and the declared groups that held its mailbox when connect() was called.
VARIABLE ws

connVars == <<channel_name, ws>>

ConnInit ==
    /\ channel_name = [k \in Connections |-> NoName]
    /\ ws = [pc |-> "new", at_connect |-> {}]

\* "%s.inmemory!%s" % (prefix, "".join(...)): "specific." and ".inmemory" are
\* the 18 characters before the "!"
new_channel(letters) == Str(18, <<"!">> \o letters)

\* the coroutine that runs connection k's channel_receive
ReceiverOf(k) == IF k = "k1" THEN "r1" ELSE "r2"

\* __call__ up to self.channel_receive = functools.partial(...)
NewChannel(k) ==
    /\ channel_name[k] = NoName
    /\ \E letters \in [1..SuffixLength -> ascii_letters] :
          channel_name' = [channel_name EXCEPT ![k] = new_channel(letters)]

WsConn == "k1"
GroupH == Str(0, <<"h">>)

\* class TestConsumer(AsyncWebsocketConsumer): groups = [...]
consumer_groups == <<GroupG, GroupH>>

\* the body of group_add, after its asserts
group_add_nothing(gs, group, channel, t) == gs

group_add(gs, group, channel, t) ==
    Put(gs, group,
        Put(IF group \in DOMAIN gs THEN gs[group] ELSE <<>>, channel, t))

\* for group in self.groups: await self.channel_layer.group_add(...)
RECURSIVE add_each(_, _, _, _)
add_each(gs, i, channel, t) ==
    IF i > Len(consumer_groups) THEN gs
    ELSE add_each(group_add(gs, consumer_groups[i], channel, t), i + 1, channel, t)

\* for group in self.groups: await self.channel_layer.group_discard(...)
RECURSIVE discard_each(_, _, _)
discard_each(gs, i, channel) ==
    IF i > Len(consumer_groups) THEN gs
    ELSE discard_each(group_discard(gs, consumer_groups[i], channel), i + 1, channel)

\* AsyncWebsocketConsumer.websocket_connect: the group_add calls, then
\* connect(), which accepts
consumer_websocket_connect ==
    LET name == channel_name[WsConn] IN
    /\ ws.pc = "new"
    /\ name # NoName
    /\ groups' = add_each(groups, 1, name, now)
    /\ ws' = [pc |-> "connected",
              at_connect |-> { g \in Range(consumer_groups) :
                                 g \in DOMAIN groups' /\ name \in DOMAIN groups'[g] }]
    /\ joined' = joined \cup { <<g, name>> : g \in Range(consumer_groups) }
    /\ lastOp' = Op("websocket_connect", name, NoName, "none", "ok", 0)
    /\ UNCHANGED <<now, channels, qitems, getters, rcv, nextMsg, got, returns,
                   pruned, channel_name>>

\* AsyncWebsocketConsumer.websocket_disconnect: the group_discard calls,
\* disconnect(code), raise StopConsumer()
consumer_websocket_disconnect ==
    LET name == channel_name[WsConn] IN
    /\ ws.pc = "connected"
    /\ groups' = discard_each(groups, 1, name)
    /\ ws' = [ws EXCEPT !.pc = "disconnected"]
    /\ joined' = joined \ { <<g, name>> : g \in Range(consumer_groups) }
    /\ lastOp' = Op("websocket_disconnect", name, NoName, "none", "StopConsumer", 0)
    /\ UNCHANGED <<now, channels, qitems, getters, rcv, nextMsg, got, returns,
                   pruned, channel_name>>

\* The steps of one websocket consumer with declared groups, of its mailbox
\* receive, and of the callers that use its first group for another channel.
WebsocketLoop ==
    \/ consumer_websocket_connect
    \/ consumer_websocket_disconnect
    \/ GroupAdd(GroupG, ChanA) /\ UNCHANGED connVars
    \/ GroupSend(GroupG, "dict", MaxTimedSends) /\ UNCHANGED connVars
    \/ /\ channel_name[WsConn] # NoName
       /\ ws.pc # "disconnected"
       /\ Receive(ReceiverOf(WsConn), channel_name[WsConn])
       /\ UNCHANGED connVars
    \/ Resume(ReceiverOf(WsConn)) /\ UNCHANGED connVars
    \/ Tick /\ UNCHANGED connVars

\* The steps of two connections: each gets its name, then receives on its
\* mailbox while others send to it.
MailboxLoop ==
    \/ \E k \in Connections : NewChannel(k) /\ UNCHANGED layerVars
    \/ \E k \in Connections :
          /\ channel_name[k] # NoName
          /\ Send(channel_name[k], "dict", MaxTimedSends)
          /\ UNCHANGED channel_name
    \/ \E k \in Connections :
          /\ channel_name[k] # NoName
          /\ Receive(ReceiverOf(k), channel_name[k])
          /\ UNCHANGED channel_name
    \/ \E k \in Connections : Resume(ReceiverOf(k)) /\ UNCHANGED channel_name

\* The calls that coroutines R make with channel names C, group names G and
\* messages of the kinds K, enqueuing at most limit messages.
Calls(R, C, G, K, limit) ==
    \/ \E channel \in C, kind \in K : Send(channel, kind, limit)
    \/ \E r \in R, channel \in C : Receive(r, channel)
    \/ \E r \in R : Resume(r)
    \/ \E group \in G, channel \in C : GroupAdd(group, channel)
    \/ \E group \in G, channel \in C : GroupDiscard(group, channel)
    \/ \E group \in G, kind \in K : GroupSend(group, kind, limit)

Cancellation(R) ==
    \/ \E r \in R : Cancel(r)
    \/ \E r \in R : Cancelled(r)

vars == <<capacity, connVars, layerVars, consumerVars, priorityVars, lookupVars, demuxVars, sent_close,
    timed_out, children>>

\* everything but the layer's variables, and so on
exceptLayer == <<capacity, connVars, consumerVars, priorityVars, lookupVars, demuxVars, sent_close,
    timed_out, children>>
exceptPlain == <<capacity, connVars, priorityVars, lookupVars, demuxVars, sent_close,
    timed_out, children>>
exceptPriority == <<capacity, connVars, layerVars, consumerVars, lookupVars, demuxVars, sent_close,
    timed_out, children>>
exceptLookup == <<capacity, connVars, layerVars, consumerVars, priorityVars, demuxVars, sent_close,
    timed_out, children>>
exceptDemux == <<capacity, connVars, layerVars, consumerVars, priorityVars, lookupVars, sent_close, children>>
exceptMultiplexer == <<capacity, connVars, layerVars, consumerVars, priorityVars, lookupVars, children>>
exceptMultiplex == <<capacity, connVars, layerVars, consumerVars, priorityVars, lookupVars>>

Constructed ==
    /\ LayerInit /\ ConsumerInit /\ PriorityInit /\ LookupIdle /\ DemuxInit
    /\ sent_close = FALSE /\ timed_out = FALSE /\ MultiplexInit
    /\ ConnInit

Idling == Constructed /\ capacity = Capacity

Init == Idling /\ variant = "plain"

\* Spec: any number of coroutines of Receivers receive on one channel while
\* others send, group_send, flush and cancel; the clock stands still.
Next ==
    \/ Calls(Receivers, {ChanA}, Groups, {"dict"}, MaxSends) /\ UNCHANGED exceptLayer
    \/ Cancellation(Receivers) /\ UNCHANGED exceptLayer
    \/ Flush /\ UNCHANGED exceptLayer

Spec == Init /\ [][Next]_vars

\* SpecCapacity: as Spec, for a layer constructed with any capacity up to
\* Capacity.
InitCapacity == Constructed /\ variant = "plain" /\ capacity \in 0..Capacity

SpecCapacity == InitCapacity /\ [][Next]_vars

\* SpecMailboxes: two connections get their mailbox names and use them; the
\* clock stands still.
exceptMailboxes == <<capacity, ws, consumerVars, priorityVars, lookupVars, demuxVars,
    sent_close, timed_out, children>>

\* everything but the layer's and the connections' variables
exceptConnections == <<capacity, consumerVars, priorityVars, lookupVars, demuxVars,
    sent_close, timed_out, children>>

NextMailboxes == MailboxLoop /\ UNCHANGED exceptMailboxes

SpecMailboxes == Init /\ [][NextMailboxes]_vars

\* SpecWebsocket: one websocket consumer with declared groups connects and
\* disconnects while another channel joins its first group,
\* messages are sent to that group, and time passes.
InitWebsocket ==
    /\ LayerInit /\ ConsumerInit /\ PriorityInit /\ LookupIdle /\ DemuxInit
    /\ sent_close = FALSE /\ timed_out = FALSE /\ MultiplexInit
    /\ capacity = Capacity
    /\ variant = "plain"
    \* __call__ has run up to self.channel_receive = ...
    /\ \E letters \in [1..SuffixLength -> {"a"}] :
          channel_name = [k \in Connections |->
                            IF k = WsConn THEN new_channel(letters) ELSE NoName]
    /\ ws = [pc |-> "new", at_connect |-> {}]

NextWebsocket == WebsocketLoop /\ UNCHANGED exceptConnections

SpecWebsocket == InitWebsocket /\ [][NextWebsocket]_vars

\* SpecSingle: one receiving coroutine, two channels; the clock stands still.
NextSingle ==
    \/ Calls({"r1"}, Channels, Groups, {"dict"}, MaxSends) /\ UNCHANGED exceptLayer
    \/ Flush /\ UNCHANGED exceptLayer

SpecSingle == Init /\ [][NextSingle]_vars

\* SpecExpiry: as SpecSingle, and time passes.
NextExpiry ==
    \/ Calls({"r1"}, Channels, Groups, {"dict"}, MaxTimedSends) /\ UNCHANGED exceptLayer
    \/ Tick /\ UNCHANGED exceptLayer

SpecExpiry == Init /\ [][NextExpiry]_vars

\* SpecNames: callers pass every kind of name and message, and time passes.
NextNames ==
    \/ Calls({"r1"}, ChannelArgs \ {ChanA}, GroupArgs, MessageKinds, MaxTimedSends)
         /\ UNCHANGED exceptLayer
    \/ Tick /\ UNCHANGED exceptLayer

SpecNames == Init /\ [][NextNames]_vars

\* The steps of one consumer that runs __call__ with await_many_dispatch, of
\* its transport, and of the coroutines that send to its mailbox and flush
\* the layer.
PlainLoop ==
    \/ Send(Mailbox, "dict", MaxMailboxSends) /\ UNCHANGED consumerVars
    \/ Flush /\ UNCHANGED consumerVars
    \/ \E nh \in HandlerCounts : TransportDelivers(nh)
    \/ TransportFails
    \/ TransportCancelled
    \/ MailboxRuns
    \/ MailboxResumes
    \/ MailboxCancelled
    \/ WaitReturns
    \/ HandlerReturns
    \/ \E e \in {"StopConsumer", "HandlerError"} : HandlerRaises(e)
    \/ ExternalCancel
    \/ CleanupResume

\* SpecConsumer: one consumer runs __call__ on the layer while its transport
\* delivers or fails, other coroutines send to its mailbox and flush the
\* layer, and its own task may be cancelled; the clock stands still.
NextConsumer == PlainLoop /\ UNCHANGED exceptPlain

SpecConsumer == Init /\ [][NextConsumer]_vars

\* The steps of one call of await_many_dispatch_with_priority, of the event
\* loop that runs its tasks, and of what happens outside.
PriorityLoop ==
    \/ \E o \in Outcomes : RunOnce(o)
    \/ \E priority \in BOOLEAN : Arrive(priority)
    \/ ProducerFails
    \/ \E t \in {"current_task", "priority"} : IOCompletes(t)
    \/ PriorityExternalCancel

\* SpecPriority: one connection runs await_many_dispatch_with_priority.
InitPriority == Idling /\ variant = "priority"

NextPriority == PriorityLoop /\ UNCHANGED exceptPriority

SpecPriority == InitPriority /\ [][NextPriority]_vars

\* SpecDispatch: one connection runs either of the two dispatch loops.
InitDispatch == Idling /\ variant \in {"plain", "priority"}

NextDispatch ==
    \/ variant = "plain" /\ NextConsumer
    \/ variant = "priority" /\ NextPriority

SpecDispatch == InitDispatch /\ [][NextDispatch]_vars

\* SpecLookup: one dispatch of any message by any consumer under any setting.
InitLookup ==
    /\ LayerInit /\ ConsumerInit /\ PriorityInit /\ DemuxInit
    /\ sent_close = FALSE /\ timed_out = FALSE /\ MultiplexInit
    /\ ConnInit
    /\ capacity = Capacity
    /\ variant = "plain"
    /\ lookup \in [in : LookupInputs, out : {NotRun}]

NextLookup == Dispatch /\ UNCHANGED exceptLookup

SpecLookup == InitLookup /\ [][NextLookup]_vars

\* The steps of one connection to an AsyncJsonWebsocketDemultiplexer: of its
\* peer, of its application tasks and of __call__.
DemuxLoop ==
    \/ websocket_connect /\ UNCHANGED timed_out
    \/ \E content \in Contents :
          websocket_receive(content) /\ UNCHANGED timed_out
    \/ websocket_disconnect /\ UNCHANGED timed_out
    \/ disconnect
    \/ \E s \in DStreams, type \in DownstreamTypes :
          dispatch_downstream(s, type) /\ UNCHANGED timed_out
    \/ \E s \in DStreams : UpstreamGet(s) /\ UNCHANGED timed_out
    \/ \E s \in DStreams, how \in {"done", "failed"} :
          ApplicationExits(s, how) /\ UNCHANGED timed_out
    \/ call_wait /\ UNCHANGED timed_out
    \/ call_finally /\ UNCHANGED timed_out

\* SpecDemux: one connection to an AsyncJsonWebsocketDemultiplexer with two
\* applications.
InitDemux == Idling /\ variant = "demultiplexer"

NextDemux == DemuxLoop /\ UNCHANGED exceptDemux

SpecDemux == InitDemux /\ [][NextDemux]_vars

\* The steps of one connection to the AsyncJsonWebsocketDemultiplexer of
\* generic/multiplexer.py: of its peer and of its application tasks, which
\* end of themselves or cancelled.
MultiplexerLoop ==
    \/ demux.pc = "wait" /\ multiplexer_connect /\ UNCHANGED timed_out
    \/ /\ demux.pc = "wait" /\ websocket_disconnect
       /\ UNCHANGED <<sent_close, timed_out>>
    \/ wait_for
    \/ \E s \in DStreams, type \in DownstreamTypes :
          _multiplexing_send(s, type) /\ UNCHANGED timed_out
    \/ \E s \in DStreams : UpstreamGet(s) /\ UNCHANGED <<sent_close, timed_out>>
    \/ \E s \in DStreams, how \in {"done", "failed"} :
          _monitor_task(s, how) /\ UNCHANGED timed_out
    \/ multiplexer_call

NextMultiplexer == MultiplexerLoop /\ UNCHANGED exceptMultiplexer

\* SpecMultiplexer: one connection to the AsyncJsonWebsocketDemultiplexer of
\* generic/multiplexer.py with two applications.
InitMultiplexer == Idling /\ variant = "multiplexer"

SpecMultiplexer == InitMultiplexer /\ [][NextMultiplexer]_vars

\* SpecSupervisor: one connection to either AsyncJsonWebsocketDemultiplexer.
InitSupervisor == Idling /\ variant \in {"demultiplexer", "multiplexer"}

NextSupervisor ==
    \/ variant = "demultiplexer" /\ NextDemux
    \/ variant = "multiplexer" /\ NextMultiplexer

SpecSupervisor == InitSupervisor /\ [][NextSupervisor]_vars

\* The steps of one connection to a WebsocketMultiplexerApplication: of its
\* peer, of its child tasks, which send what they like, and of __call__.
MultiplexLoop ==
    \/ \E allow \in BOOLEAN : MultiplexConnect(allow)
    \/ MultiplexDisconnect
    \/ \E e \in TextFrames : MultiplexReceive(e)
    \/ \E cancelled \in BOOLEAN : MultiplexExit(cancelled)
    \/ \E s \in DStreams, type \in ChildSendTypes : ChildSend(s, type)
    \/ \E s \in DStreams : ChildEnds(s)

\* SpecMultiplex: one connection to a WebsocketMultiplexerApplication with
\* two children.
InitMultiplex == Idling /\ variant = "multiplex"

NextMultiplex == MultiplexLoop /\ MultiplexKept /\ UNCHANGED exceptMultiplex

SpecMultiplex == InitMultiplex /\ [][NextMultiplex]_vars

\* SpecMultiplexLive: as SpecMultiplex, and the event loop runs __call__ when
\* the tasks it awaits after its loop are done.  Nothing obliges the peer
\* to send, the server to cancel, or a child to send or to end.
SpecMultiplexLive ==
    SpecMultiplex
    /\ WF_vars(MultiplexExit(FALSE) /\ MultiplexKept /\ UNCHANGED exceptMultiplex)

\* SpecStreams: one connection to an AsyncJsonWebsocketDemultiplexer or to a
\* WebsocketMultiplexerApplication.
InitStreams == Idling /\ variant \in {"demultiplexer", "multiplex"}

NextStreams ==
    \/ variant = "demultiplexer" /\ NextDemux
    \/ variant = "multiplex" /\ NextMultiplex

SpecStreams == InitStreams /\ [][NextStreams]_vars

(***************************************************************************)
(* Claims about the in-memory channel layer.                               *)
(***************************************************************************)
\* The entries stored for a channel name ("none" is <<>>)
Stored(channel) ==
    IF channel \in DOMAIN channels THEN qitems[channels[channel]] ELSE <<>>

StoredAfter(channel) ==
    IF channel \in DOMAIN channels' THEN qitems'[channels'[channel]] ELSE <<>>

\* C1: a send to a channel that holds fewer than capacity entries succeeds and
\* stores one more entry; a send raises ChannelFull exactly when the channel
\* already holds capacity entries.  So from an empty channel, with nothing
\* taken out in between, sends 1..N succeed and send N+1 is the first to raise.
C1_SendFullOnlyAtCapacity ==
    [][lastOp'.op = "send" =>
        LET n == Len(Stored(lastOp'.chan))
        IN  /\ lastOp'.res \in {"ok", "ChannelFull"}
            /\ lastOp'.res = "ChannelFull" <=> n = Capacity
            /\ lastOp'.res = "ok" =>
                 StoredAfter(lastOp'.chan) =
                   Append(Stored(lastOp'.chan), <<now + Expiry * Resolution, lastOp'.msg>>)
            /\ lastOp'.res = "ChannelFull" =>
                 StoredAfter(lastOp'.chan) = Stored(lastOp'.chan)]_vars

\* N sends were stored, nothing was received, and send N+1 raised ChannelFull
C1_Witness ==
    /\ lastOp.op = "send"
    /\ lastOp.res = "ChannelFull"
    /\ returns = 0
    /\ nextMsg = Capacity + 1
    /\ Len(Stored(lastOp.chan)) = Capacity

\* C2: no receive() call made at a time >= T + E returns a message sent at T
\* (the entry of a message sent at T carries the expiry time T + E)
C2_NeverReturnedAtOrAfterExpiry ==
    (lastOp.op = "receive" /\ lastOp.res = "ok") => lastOp.calledAt < lastOp.expires

\* C3: with one receiver, a message that receive returns was sent after every
\* message the channel returned before, and before every message still stored
\* in the queue it came from
C3_ReceivedInSendOrder ==
    [][(lastOp'.op = "receive" /\ lastOp'.res = "ok" /\ returns' = returns + 1) =>
        LET r == lastOp'.rcv
            c == lastOp'.chan
            from == IF rcv[r].pc = "woken" THEN qitems[rcv[r].q] ELSE Stored(c)
        IN  /\ \A p \in got : p[1] = c => p[2] < lastOp'.msg
            /\ from # <<>>
            /\ \A i \in 1..Len(from) : i > 1 => lastOp'.msg < from[i][2]]_vars

\* receive returned its channel's second message while a later one was stored
C3_Witness ==
    /\ lastOp.op = "receive"
    /\ lastOp.res = "ok"
    /\ \E p \in got : p[1] = lastOp.chan /\ p[2] < lastOp.msg
    /\ Stored(lastOp.chan) # <<>>

\* C4: every return of receive hands out a message that no receive on that
\* channel returned before: the returns are as many as the distinct
\* <<channel, message>> pairs returned
C4_EachMessageReturnedOnce == returns = Cardinality(got)

\* a receive returned a message while another coroutine was inside receive on
\* the same channel
C4_Witness ==
    /\ lastOp.op = "receive"
    /\ lastOp.res = "ok"
    /\ \E r \in Receivers \ {lastOp.rcv} :
          rcv[r].pc \in {"waiting", "woken"} /\ rcv[r].chan = lastOp.chan

\* C5 as stated: group_send stores one copy on every channel that was added
\* to the group and not discarded since, and nothing on any other channel
C5_GroupSendReachesEveryMember ==
    [][(lastOp'.op = "group_send" /\ ~pruned) =>
        \A c \in Channels :
            StoredAfter(c) =
              IF <<lastOp'.group, c>> \in joined
              THEN Append(Stored(c), <<now + Expiry * Resolution, nextMsg>>)
              ELSE Stored(c)]_vars

\* C5 as amended: group_send stores one copy on every channel that was added
\* to the group and not discarded since and holds fewer than capacity entries,
\* and nothing on any other channel, which it does not create either
C5_GroupSendReachesMembersWithRoom ==
    [][(lastOp'.op = "group_send" /\ ~pruned) =>
        \A c \in Channels :
            IF <<lastOp'.group, c>> \in joined /\ Len(Stored(c)) < Capacity
            THEN StoredAfter(c) = Append(Stored(c), <<now + Expiry * Resolution, nextMsg>>)
            ELSE /\ StoredAfter(c) = Stored(c)
                 /\ c \in DOMAIN channels' <=> c \in DOMAIN channels]_vars

\* after group_add of two channels and group_discard of one of them,
\* group_send stored its message on the other one only
C5_Witness ==
    /\ lastOp.op = "group_send"
    /\ lastOp.msg = 1
    /\ joined = {<<GroupG, ChanB>>}
    /\ Len(Stored(ChanB)) = 1
    /\ Stored(ChanA) = <<>>
    /\ DOMAIN groups[GroupG] = {ChanB}

\* C6: group_send returns normally whatever its members hold: a member at
\* capacity keeps its queue as it was, every other member gets the message
C6_GroupSendSwallowsChannelFull ==
    [][lastOp'.op = "group_send" =>
        /\ lastOp'.res = "ok"
        /\ \A c \in members_of(Layer, lastOp'.group) :
              StoredAfter(c) =
                IF Len(Stored(c)) >= Capacity THEN Stored(c)
                ELSE Append(Stored(c), <<now + Expiry * Resolution, nextMsg>>)]_vars

\* group_send returned normally with one member at capacity and left alone,
\* and the message on another member
C6_Witness ==
    /\ lastOp.op = "group_send"
    /\ lastOp.res = "ok"
    /\ lastOp.msg > 0
    /\ \E c, d \in members_of(Layer, lastOp.group) :
          /\ Len(Stored(c)) = Capacity
          /\ \A i \in 1..Len(Stored(c)) : Stored(c)[i][2] # lastOp.msg
          /\ \E i \in 1..Len(Stored(d)) : Stored(d)[i][2] = lastOp.msg

\* C7: no queue ever holds more entries than the capacity
C7_NeverOverCapacity == \A q \in QIds : Len(qitems[q]) <= Capacity

\* a queue is at capacity while a receive that a send woke has yet to run
C7_Witness ==
    \E r \in Receivers :
        /\ rcv[r].pc = "woken"
        /\ Len(qitems[rcv[r].q]) = Capacity
        /\ lastOp.res = "ChannelFull"

\* the claim's invalid names: not a string, 100 characters or more, or not of
\* the name grammar
InvalidChannelName(name) ==
    ~name.str \/ NameLen(name) >= 100 \/ ~channel_name_regex(name)

InvalidGroupName(name) ==
    ~name.str \/ NameLen(name) >= 100 \/ ~group_name_regex(name)

\* C8: a call of send, receive, group_add, group_discard or group_send with an
\* invalid channel or group name raises and leaves the layer as it was
C8_InvalidNameChangesNothing ==
    [][( /\ lastOp'.op \in {"send", "receive", "group_add", "group_discard",
                            "group_send"}
         /\ \/ lastOp'.chan # NoName /\ InvalidChannelName(lastOp'.chan)
            \/ lastOp'.group # NoName /\ InvalidGroupName(lastOp'.group) ) =>
        /\ lastOp'.res \in {"TypeError", "AssertionError"}
        /\ UNCHANGED <<now, channels, qitems, getters, groups, rcv, nextMsg,
                       got, returns, joined, pruned>>]_vars

\* receive was called with an invalid name while a stored message had expired,
\* and the message is still stored
C8_Witness ==
    /\ lastOp.op = "receive"
    /\ lastOp.res = "TypeError"
    /\ InvalidChannelName(lastOp.chan)
    /\ _clean_expired(Layer, now) # Layer

(***************************************************************************)
(* Claims about AsyncConsumer.__call__ and await_many_dispatch.            *)
(***************************************************************************)
\* __call__ is over
Exited == loop \in {"returned", "raised"}

\* C9: once a handler has raised StopConsumer, no handler is invoked any more,
\* and when __call__ is over it has returned normally, without an exception
C9_StopConsumerExitsCleanly ==
    [][stopped' => /\ (stopped => invoked' = invoked)
                   /\ (loop' \in {"returned", "raised"} => loop' = "returned")]_vars

\* C9, its second half alone: once a handler has raised StopConsumer, no
\* handler is invoked any more, whatever results have arrived
C9_NoHandlerAfterStopConsumer ==
    [][stopped => invoked' = invoked]_vars

\* C10: when await_many_dispatch is over, no task that awaits an input source
\* is left unfinished: each one is done, with a result, an exception or
\* cancelled
C10_NoTaskSurvivesExit ==
    Exited => \A i \in 1..NTasks : tasks[i].st \in Done

(***************************************************************************)
(* Claims about await_many_dispatch_with_priority.                         *)
(***************************************************************************)
\* C11: whenever the handler of a priority message starts, the task of the
\* non-priority invocation that was running when handle_message took the
\* message is done (cancelled, or ended by itself): its cancellation was
\* awaited and absorbed, and the task that runs the priority handler has not
\* ended through it
C11_PreemptedBeforePriorityStarts ==
    [][pstarts' > pstarts =>
        /\ ptask'["current_task"] \in PDone \cup {"none"}
        /\ ptask["priority"] = "await_task" => ptask["current_task"] \in PDone
        /\ ptask'["priority"] \notin {"done", "cancelled"}]_vars

\* a priority message preempted a handler that was suspended in mid-execution;
\* the handler ended cancelled and the priority handler has started
C11_Witness ==
    /\ preempted
    /\ hstarts = 1
    /\ pstarts = 1
    /\ ptask["current_task"] = "cancelled"
    /\ ptask["priority"] = "dispatch"

\* how many dispatch invocations of the connection are in progress: started
\* and neither returned nor raised
InProgress ==
    (IF loop = "handler" THEN 1 ELSE 0)
    + (IF ptask["current_task"] = "running" THEN 1 ELSE 0)
    + (IF ptask["priority"] = "dispatch" THEN 1 ELSE 0)

\* C12: in either dispatch loop at most one dispatch invocation is in progress
\* at any time, and an invocation starts only when none is in progress
C12_OneDispatchAtATime ==
    /\ InProgress <= 1
    /\ ptask["current_task"] = "new" => ptask["priority"] # "dispatch"

\* both input sources of the plain loop have a result at the same moment and
\* one of the two is being dispatched while the other waits
C12_Witness ==
    /\ variant = "plain"
    /\ loop = "handler"
    /\ \A i \in 1..NTasks : tasks[i].st = "result"
    /\ InProgress = 1

(***************************************************************************)
(* Claims about the dispatch of one message.                               *)
(***************************************************************************)
\* C13: when dispatch finds no handler for a message's type, the ValueError
\* leaves the loop: from then on no handler is invoked, the consumer only
\* cleans up, and when __call__ is over it has raised
C13_NoHandlerStopsTheLoop ==
    [][(exc = "ValueError" \/ exc' = "ValueError") =>
        /\ invoked' = invoked
        /\ loop' \in {"cleanup", "raised"}]_vars

\* __call__ has raised the ValueError of a message without handler while a
\* message that has a handler had arrived and was never dispatched
C13_Witness ==
    /\ loop = "raised"
    /\ exc = "ValueError"
    /\ \E i \in 1..NTasks : tasks[i].st = "result" /\ tasks[i].nh > 0

\* C14: the dispatch of a message whose type begins with "_" once its dots are
\* replaced raises the malformed-type error and invokes no handler
C14_UnderscoreTypeRejected ==
    (lookup.out # NotRun /\ lookup.in.type # NoType
       /\ startswith_underscore(replace_dots(lookup.in.type))) =>
        /\ lookup.out.error = "MalformedValueError"
        /\ lookup.out.invoked = <<>>

\* C15 (generic/demultiplexer.py): over any sequence of accept and close
\* messages of the applications, at most one websocket.accept goes out to the
\* peer; every accept after the first one is absorbed, also one that arrives
\* after other applications have closed.
C15_AtMostOneOutwardAccept == Len(Sent("websocket.accept")) <= 1

\* C16 (generic/demultiplexer.py): at most one websocket.close goes out to
\* the peer, and it goes out only at a moment when no stream accepts frames.
C16_AtMostOneOutwardClose ==
    /\ [](Len(Sent("websocket.close")) <= 1)
    /\ [][Len(Sent("websocket.close"))' > Len(Sent("websocket.close"))
            => applications_accepting_frames' = {}]_vars

\* C17: once the peer's websocket.disconnect has been received, no
\* websocket.close goes out to the peer, whatever the applications send and
\* however their tasks end afterwards.
C17_NoOutwardCloseAfterDisconnect ==
    [][peer = "disconnected"
         => Len(Sent("websocket.close"))' = Len(Sent("websocket.close"))]_vars

\* After the disconnect the last accepting application has closed or ended,
\* and no close has gone out.
C17_Witness ==
    /\ peer = "disconnected"
    /\ applications_accepting_frames = {}
    /\ \E s \in DStreams :
         /\ application_phase[s] = "accepted"
            => application_futures[s] \in {"done", "failed", "cancelled"}
         /\ application_phase[s] \in {"accepted", "closed"}
    /\ \A s \in DStreams : application_phase[s] # "connected"
    /\ Sent("websocket.accept") # <<>>
    /\ Sent("websocket.close") = <<>>

\* A frame that lacks its "stream" or "payload" key, or whose stream tag no
\* application is mapped to.
Unroutable(content) ==
    \/ ~content.dict
    \/ content.stream \notin DStreams
    \/ content.payload = Missing

FrameNumbers(s) ==
    LET frames_of == SelectSeq(s, LAMBDA e : e.type = "websocket.receive")
    IN  [i \in 1..Len(frames_of) |-> frames_of[i].text[2]]

Increasing(s) == \A i, j \in 1..Len(s) : i < j => s[i] < s[j]

\* C20 (generic/websocket/multiplex.py): a frame for a child that has not
\* accepted goes to the end of that child's buffer and not to its queue; the
\* child's accept puts the whole buffer on its queue, in order, and leaves no
\* buffer; the queue is given every frame once and in the order of arrival,
\* the buffered ones ahead of the later ones; and whatever the child sends
\* afterwards, it keeps accepting and has no buffer again.
C20_BufferFlushedOnceInOrder ==
    /\ [][\A e \in TextFrames :
            (/\ MultiplexReceive(e)
             /\ e.text /\ e.payload /\ e.stream \in DStreams
             /\ children[e.stream].has_queue
             /\ children[e.stream].task = "running"
             /\ ~children[e.stream].accepting)
            => (/\ children'[e.stream].buffer =
                      Append(children[e.stream].buffer,
                             Event("websocket.receive", frames + 1))
                /\ children'[e.stream].queue = children[e.stream].queue)]_vars
    /\ [][\A s \in DStreams :
            (ChildSend(s, "websocket.accept") /\ children[s].has_buffer)
            => (/\ children'[s].queue = children[s].queue \o children[s].buffer
                /\ children'[s].accepting
                /\ ~children'[s].has_buffer)]_vars
    /\ [][\A s \in DStreams :
            /\ children[s].accepting => children'[s].accepting
            /\ ~children[s].has_buffer
               => ~children'[s].has_buffer /\ children'[s].buffer = <<>>]_vars
    /\ [](\A s \in DStreams :
            /\ Increasing(FrameNumbers(children[s].queue \o children[s].buffer))
            /\ children[s].accepting => children[s].buffer = <<>>)

\* A child has accepted with the first frame in its buffer and has then
\* been sent the second frame.
C20_Witness ==
    \E s \in DStreams :
      /\ children[s].flushed = 1
      /\ children[s].accepting
      /\ FrameNumbers(children[s].queue) = <<1, 2>>

\* the inbound side of the child of stream s: its queue, and its buffer where
\* it has one
Inbound(s) ==
    IF variant = "demultiplexer" THEN application_streams[s]
    ELSE children[s].queue \o children[s].buffer

\* the handler of the connection takes a frame of the peer that has its keys
\* and is tagged with stream s
FrameFor(s) ==
    \/ /\ variant = "demultiplexer"
       /\ \E content \in Contents :
            /\ content.dict /\ content.stream = s /\ content.payload # Missing
            /\ websocket_receive(content)
    \/ /\ variant = "multiplex"
       /\ \E e \in TextFrames :
            /\ e.text /\ e.stream = s /\ e.payload
            /\ MultiplexReceive(e)

\* the inbound side of s grows by one websocket.receive message
OneAdded(s) ==
    /\ Len(Inbound(s)') = Len(Inbound(s)) + 1
    /\ SubSeq(Inbound(s)', 1, Len(Inbound(s))) = Inbound(s)
    /\ Inbound(s)'[Len(Inbound(s)')].type = "websocket.receive"
    /\ Inbound(s)'[Len(Inbound(s)')].text[1] = "json"

\* the queue and the buffer of every child but s stay as they are
OthersKept(s) ==
    \A t \in DStreams \ {s} :
      /\ application_streams'[t] = application_streams[t]
      /\ children'[t].queue = children[t].queue
      /\ children'[t].buffer = children[t].buffer

\* the queue of the child of stream s
Queue(s) ==
    IF variant = "demultiplexer" THEN application_streams[s]
    ELSE children[s].queue

\* a step that adds to the inbound side of two children adds one
\* websocket.connect or one websocket.disconnect to the queue of each
OnlyConnectAndDisconnectBroadcast ==
    \A s, t \in DStreams :
      (/\ s # t
       /\ Len(Inbound(s)') > Len(Inbound(s))
       /\ Len(Inbound(t)') > Len(Inbound(t)))
      => (/\ Len(Queue(s)') = Len(Queue(s)) + 1
          /\ SubSeq(Queue(s)', 1, Len(Queue(s))) = Queue(s)
          /\ Queue(s)'[Len(Queue(s)')].type
               \in {"websocket.connect", "websocket.disconnect"})

\* the child of stream s is given frames: in demultiplexer.py it has
\* accepted, in multiplex.py its task runs and it has not closed
GivenFrames(s) ==
    IF variant = "demultiplexer" THEN s \in applications_accepting_frames
    ELSE children[s].has_queue /\ children[s].task = "running"

WellFormed(s) ==
    { e \in TextFrames : e.text /\ e.payload /\ e.stream = s }

\* the child of stream s rejected the connection (its close set the queue to
\* None) or has not accepted
NotReceiving(s) ==
    ~children[s].has_queue \/ ~children[s].accepting

\* C21: a well-formed frame for a stream whose child rejected the connection or
\* has not accepted raises nothing and reaches no queue: __call__ stays in its
\* loop, nothing is sent outward, the child's queue and every other child are
\* as before; and whatever state the other children are in, a frame for an
\* accepting child is put on its queue and a child's websocket.send goes
\* outward tagged with its stream.
C21_FrameForRejectingStreamIsDropped ==
    /\ [][\A s \in DStreams : \A e \in WellFormed(s) :
            (NotReceiving(s) /\ MultiplexReceive(e)) =>
               /\ demux' = demux /\ Looping'
               /\ downstream' = downstream
               /\ children'[s].queue = children[s].queue
               /\ \A t \in DStreams \ {s} : children'[t] = children[t]]_vars
    /\ [][\A s \in DStreams : \A e \in WellFormed(s) :
            (/\ children[s].accepting /\ children[s].has_queue
             /\ children[s].task = "running"
             /\ MultiplexReceive(e)) =>
               /\ Looping'
               /\ children'[s].queue =
                    Append(children[s].queue,
                           Event("websocket.receive", frames + 1))]_vars
    /\ [][\A s \in DStreams :
            ChildSend(s, "websocket.send") =>
               downstream' = Append(downstream, Frame("websocket.send", s))]_vars

\* the first frame was for A, which had rejected, and was dropped with the
\* warning; the second frame reached B's queue and B has answered
C21_Witness ==
    /\ Looping /\ frames = 2
    /\ ~children["A"].has_queue /\ children["A"].warned = 1
    /\ children["B"].queue # <<>>
    /\ children["B"].queue[Len(children["B"].queue)] =
         Event("websocket.receive", 2)
    /\ \E i \in 1..Len(downstream) :
         downstream[i] = Frame("websocket.send", "B")

\* C22: when application_close_timeout has run out on an application that was
\* still handling websocket.disconnect, __call__ ends without raising
\* CancelledError or TimeoutError, and, unless an application had failed, with
\* no application task left running.
C22_TimeoutEndsWithoutRaising ==
    (timed_out /\ demux.pc = "done") =>
        /\ demux.exc \notin {"CancelledError", "TimeoutError"}
        /\ (\A s \in DStreams : application_futures[s] # "failed")
             => \A s \in DStreams : ~Running(s)

NoneFailed == \A s \in DStreams : application_futures[s] # "failed"

\* C23: after the peer's websocket.disconnect, and with no application having
\* failed, an application task that is still running is cancelled only once
\* application_close_timeout has run out, however early another application
\* finished.
C23_NoCancelBeforeTimeout ==
    [][\A s \in DStreams :
         (/\ closing /\ NoneFailed /\ Running(s)
          /\ application_futures'[s] = "cancelled") => timed_out']_vars

\* a close with code 1011 has gone out
Sent1011 ==
    \E i \in 1..Len(downstream) : downstream[i] = CloseFrame("1011")

\* C24 (generic/multiplexer.py): when an application task fails before the
\* peer's websocket.disconnect, a websocket.close with code 1011 goes out at
\* once; and __call__ then ends only by raising that exception, with every
\* application task that was still running cancelled.
C24_FailureClosesAndIsRaised ==
    /\ [][\A s \in DStreams :
            (~closing /\ _monitor_task(s, "failed")) =>
               downstream' = Append(downstream, CloseFrame("1011"))]_vars
    /\ [](Sent1011 => \E s \in DStreams : application_futures[s] = "failed")
    /\ []((Sent1011 /\ demux.pc = "done") =>
             /\ demux.exc = "ApplicationError"
             /\ \A s \in DStreams : ~Running(s))

\* A failed while B was running and the peer connected: the close has gone
\* out, __call__ has raised, B is cancelled
C24_Witness ==
    /\ Sent1011 /\ demux.pc = "done" /\ ~closing
    /\ application_futures["A"] = "failed"
    /\ application_futures["B"] = "cancelled"
    /\ demux.exc = "ApplicationError"

\* C25 (generic/multiplexer.py): when an application task fails after the
\* peer's websocket.disconnect, no websocket.close goes out and __call__
\* ends without raising.
C25_FailureAfterDisconnectIsSwallowed ==
    /\ [][\A s \in DStreams :
            (closing /\ _monitor_task(s, "failed")) =>
               downstream' = downstream]_vars
    /\ []((/\ demux.pc = "done" /\ ~Sent1011
           /\ \E s \in DStreams : application_futures[s] = "failed")
            => demux.exc = "none")

\* C26: send raises ChannelFull exactly when the channel already holds as many
\* entries as get_capacity gives for its name: the capacity of the first
\* override whose pattern matches, the default when none matches.
C26_SendAppliesResolvedCapacity ==
    [][(lastOp'.op = "send" /\ lastOp'.res \in {"ok", "ChannelFull"}) =>
         (lastOp'.res = "ChannelFull"
            <=> Len(Stored(lastOp'.chan)) >= get_capacity(lastOp'.chan))]_vars

\* C27: a send to a channel that holds capacity entries, every one of them
\* past its expiry time, succeeds.
C27_SendIgnoresExpiredEntries ==
    [][(/\ lastOp'.op = "send"
        /\ lastOp'.res \in {"ok", "ChannelFull"}
        /\ Len(Stored(lastOp'.chan)) = Capacity
        /\ \A i \in 1..Len(Stored(lastOp'.chan)) :
             Stored(lastOp'.chan)[i][1] < now)
         => lastOp'.res = "ok"]_vars

\* the receive calls suspended on the queue object of channel c
BlockedOn(c) ==
    { r \in Receivers : rcv[r].pc # "idle" /\ rcv[r].q = channels[c] }

\* C28: between the steps of the layer's calls, every entry of self.channels
\* holds a message or has a receive suspended on its queue, whatever the
\* capacity.
C28_NoEmptyChannelEntry ==
    \A c \in DOMAIN channels :
        qitems[channels[c]] # <<>> \/ BlockedOn(c) # {}

\* C29: self.groups holds no group without members.
C29_NoEmptyGroup ==
    \A g \in DOMAIN groups : DOMAIN groups[g] # {}

\* C30: a membership lasts group_expiry seconds from the channel's latest
\* group_add: group_send delivers nothing to a member whose latest group_add
\* is more than group_expiry seconds old, and group_add stamps the membership
\* with the time of the call, also for a channel that is a member already.
C30_MembershipLastsGroupExpiry ==
    [][/\ (lastOp'.op = "group_send" /\ lastOp'.msg # 0) =>
            \A c \in members_of(Layer, lastOp'.group) :
                now - groups[lastOp'.group][c] > GroupExpiry * Resolution
                  => \A i \in 1..Len(StoredAfter(c)) :
                         StoredAfter(c)[i][2] # lastOp'.msg
       /\ (lastOp'.op = "group_add" /\ lastOp'.res = "ok") =>
            groups'[lastOp'.group][lastOp'.chan] = now]_vars

\* C31: new_channel never returns one name twice: two connections never hold
\* the same mailbox name, so a message sent to the mailbox of one is never
\* returned to the receive of the other.
C31_MailboxNamesDistinct ==
    \A j, k \in Connections :
        (j # k /\ channel_name[j] # NoName) => channel_name[j] # channel_name[k]

\* C32: a receive whose channel entry was removed while it was suspended
\* still ends by returning its message or by propagating its cancellation:
\* no receive ends with another error.
C32_ReceiveToleratesMissingEntry ==
    [][(lastOp'.op = "receive" /\ valid_channel_name(lastOp'.chan)) =>
         lastOp'.res \in {"ok", "blocked", "CancelledError"}]_vars

\* C33: the mailbox of a websocket consumer is a member of every declared
\* group when its connect handler runs; the handling of websocket.disconnect
\* leaves it in no group and leaves no declared group empty, and it is in no
\* group afterwards.
C33_DeclaredGroupsJoinedAndLeft ==
    /\ [](ws.pc # "new" => ws.at_connect = Range(consumer_groups))
    /\ [](ws.pc = "disconnected" =>
            \A g \in DOMAIN groups : channel_name[WsConn] \notin DOMAIN groups[g])
    /\ [][(ws.pc = "connected" /\ ws'.pc = "disconnected") =>
            \A g \in Range(consumer_groups) :
                g \in DOMAIN groups' => DOMAIN groups'[g] # {}]_vars

\* the consumer has disconnected after a sweep pruned a member, and the other
\* channel is still a member of a declared group
C33_Witness ==
    /\ ws.pc = "disconnected"
    /\ pruned
    /\ \E g \in DOMAIN groups : ChanA \in DOMAIN groups[g]

\* the step removes from channel c an entry that is past its expiry time,
\* and not by returning it to a receive or by flush
SweptFrom(c) ==
    /\ lastOp'.op \in {"receive", "group_send"}
    /\ \E i \in 1..Len(Stored(c)) :
          /\ Stored(c)[i][1] < now
          /\ \A j \in 1..Len(StoredAfter(c)) : StoredAfter(c)[j] # Stored(c)[i]
          /\ ~(lastOp'.op = "receive" /\ lastOp'.msg = Stored(c)[i][2])

\* C34: a sweep that removes an expired message from a channel removes the
\* channel from every group, and the group_send that ran the sweep delivers
\* nothing to it.
C34_SweptChannelLeavesItsGroups ==
    [][\A c \in DOMAIN channels :
         SweptFrom(c) =>
            /\ \A g \in DOMAIN groups' : c \notin DOMAIN groups'[g]
            /\ lastOp'.op = "group_send" =>
                 \A j \in 1..Len(StoredAfter(c)) :
                     StoredAfter(c)[j][2] # lastOp'.msg]_vars

\* a group_send has swept every stored message, all expired, pruned the
\* members that held them, and so has delivered nothing
C34_Witness ==
    /\ lastOp.op = "group_send"
    /\ lastOp.res = "ok"
    /\ lastOp.msg = 0
    /\ pruned
    /\ nextMsg > 1
    /\ channels = <<>>
    /\ now = Instant(3)

\* C35 (generic/websocket/multiplex.py): the disconnect of the peer is put on
\* the queue of every child that is still receiving; a child that closed its
\* stream while its task lives on gets nothing and does not make the
\* broadcast fail.
C35_DisconnectSkipsClosedChildren ==
    [][(variant = "multiplex" /\ peer = "connected" /\ peer' = "disconnected") =>
         /\ demux'.exc = "none"
         /\ \A s \in DStreams :
              children'[s].queue =
                 IF children[s].task = "running" /\ children[s].has_queue
                 THEN Append(children[s].queue, Event("websocket.disconnect", 0))
                 ELSE children[s].queue]_vars

\* C36 (generic/websocket/multiplex.py): once the disconnect of the peer has
\* been forwarded and every child task has finished, __call__ eventually
\* returns.
C36_ReturnsAfterDisconnect ==
    (peer = "disconnected" /\ \A s \in DStreams : children[s].task # "running")
        ~> demux.pc = "done"

\* C37: a stored message leaves the layer only when a receive takes it, when
\* it is swept after its expiry time, or by flush: no step, and so no cleanup
\* of a receive that ends, drops a channel entry whose queue holds messages.
C37_StoredUntilTakenSweptOrFlushed ==
    [][\A c \in DOMAIN channels :
         \A i \in 1..Len(Stored(c)) :
            \/ \E j \in 1..Len(StoredAfter(c)) : StoredAfter(c)[j] = Stored(c)[i]
            \/ lastOp'.op = "receive" /\ lastOp'.msg = Stored(c)[i][2]
            \/ Stored(c)[i][1] < now
            \/ lastOp'.op = "flush"]_vars

\* C38: a message sent with success to a channel on which a receive is
\* blocked goes to a queue that a blocked receive is woken on: no receive is
\* left waiting on a queue that the senders to its channel do not reach.
C38_SendReachesBlockedReceive ==
    [][(/\ lastOp'.op = "send"
        /\ lastOp'.res = "ok"
        /\ \E r \in Receivers :
              rcv[r].pc = "waiting" /\ rcv[r].chan = lastOp'.chan)
         => \E r \in Receivers :
              /\ rcv[r].pc = "waiting"
              /\ rcv'[r].pc = "woken"
              /\ rcv'[r].chan = lastOp'.chan
              /\ rcv'[r].q = channels'[lastOp'.chan]]_vars

\* C39: the handler of a priority message that preempted a running handler
\* and then suspended runs on until it returns or raises: unless the caller
\* was cancelled from outside or a task failed, the task that runs it does
\* not end by a cancellation.
C39_PriorityHandlerRunsToCompletion ==
    [][(/\ preempted
        /\ hstarts > 0
        /\ ptask["priority"] = "dispatch"
        /\ exception # "CancelledError"
        /\ \A t \in PTasks : ptask[t] # "failed")
         => ptask'["priority"] # "done"]_vars

\* C40: once handle_message has taken a priority message, no other handler
\* invocation starts: the count of non-priority invocations stays as it is,
\* and the only priority invocation that starts is the one of that message,
\* the first ever; the messages taken afterwards are dropped
C40_NoHandlerAfterPriorityMessage ==
    [][/\ close_message_received' => hstarts' = hstarts
       /\ pstarts' > pstarts =>
            /\ pstarts = 0
            /\ close_message_received => ptask["priority"] = "await_task"]_vars

\* a priority message was handled and the two other messages, which
\* handle_message took once close_message_received was set, started nothing
C40_Witness ==
    /\ close_message_received
    /\ pstarts = 1
    /\ hstarts = 0
    /\ ptask["current_task"] = "none"
    /\ arrivals = MaxArrivals
    /\ queue = 0
    /\ priority_queue = 0
====
